---------------------------- MODULE Spec2Model ----------------------------
(***************************************************************************)
(* The configuration reconciliation engine of reliverse: reading,          *)
(* validating, repairing, merging and durably writing reliverse.jsonc.     *)
(*                                                                         *)
(* JSON values are tagged records [t, v]; an object keeps its keys in      *)
(* insertion order, as a JavaScript object does, so it is a sequence of    *)
(* [k, v] entries.  A file's content is a sequence of lines, the shape     *)
(* JSON.stringify(value, null, 2) gives it.                                *)
(***************************************************************************)
EXTENDS Integers, Sequences, FiniteSets, TLC

(***************************************************************************)
(* JSON values                                                             *)
(***************************************************************************)
Str(s) == [t |-> "str", v |-> s]
Num(s) == [t |-> "num", v |-> s]
Bool(s) == [t |-> "bool", v |-> s]
Null == [t |-> "null", v |-> ""]
Undef == [t |-> "undef", v |-> ""]
Obj(entries) == [t |-> "obj", v |-> entries]
Arr(items) == [t |-> "arr", v |-> items]
KV(key, val) == [k |-> key, v |-> val]

IsObj(x) == x.t = "obj"
IsArr(x) == x.t = "arr"

\* typeof x === "object" && x !== null && !Array.isArray(x)
IsPlainObject(x) == x.t = "obj"

\* Object.keys(o), in insertion order
Keys(o) == [i \in 1..Len(o.v) |-> o.v[i].k]

KeySet(o) == {o.v[i].k : i \in 1..Len(o.v)}

\* key in o
HasKey(o, key) == IsObj(o) /\ key \in KeySet(o)

\* o[key]: undefined when o has no such key or is not an object
Get(o, key) ==
  IF HasKey(o, key)
  THEN o.v[CHOOSE i \in 1..Len(o.v) : o.v[i].k = key].v
  ELSE Undef

\* o[key] = val on an object: an existing key keeps its place, a new one is
\* appended
Put(o, key, val) ==
  IF HasKey(o, key)
  THEN Obj([i \in 1..Len(o.v) |-> IF o.v[i].k = key THEN KV(key, val) ELSE o.v[i]])
  ELSE Obj(Append(o.v, KV(key, val)))

RECURSIVE PutAll(_, _, _)
PutAll(o, entries, i) ==
  IF i > Len(entries) THEN o
  ELSE PutAll(Put(o, entries[i].k, entries[i].v), entries, i + 1)

\* { ...a, ...b }: spreading null, undefined or a scalar adds nothing (the
\* model has no string spread: a string value is never spread by its indices)
Spread(a, b) ==
  LET base == IF IsObj(a) THEN a ELSE Obj(<< >>)
  IN IF IsObj(b) THEN PutAll(base, b.v, 1) ELSE base

\* a ?? b
Coalesce(a, b) == IF a.t \in {"null", "undef"} THEN b ELSE a

\* deep equality of two values: objects compare by key set and values, not by
\* key order; arrays compare element by element
RECURSIVE DeepEqual(_, _)
DeepEqual(a, b) ==
  IF a.t # b.t THEN FALSE
  ELSE IF a.t = "obj"
    THEN /\ KeySet(a) = KeySet(b)
         /\ Len(a.v) = Len(b.v)
         /\ \A key \in KeySet(a) : DeepEqual(Get(a, key), Get(b, key))
  ELSE IF a.t = "arr"
    THEN /\ Len(a.v) = Len(b.v)
         /\ \A i \in 1..Len(a.v) : DeepEqual(a.v[i], b.v[i])
  ELSE a.v = b.v


(***************************************************************************)
(* The schema (schemaConfig.js is not part of the sources at hand): object *)
(* nodes with declared properties, all of them required, and leaf nodes.   *)
(* The document modelled is a reduced reliverse.jsonc: two scalars, two    *)
(* nested objects (one nested twice), two arrays and one free-form record. *)
(***************************************************************************)
SString == [kind |-> "string"]
SNumber == [kind |-> "number"]
SBoolean == [kind |-> "boolean"]
SArray(items) == [kind |-> "array", items |-> items]
SRecord == [kind |-> "record"]
SObject(props, additional) ==
  [kind |-> "object", props |-> props, additional |-> additional]

\* schema.type
SchemaType(s) == IF s.kind \in {"object", "record"} THEN "object" ELSE s.kind

\* schema.properties is set
HasProperties(s) == s.kind = "object"

SProp(s, key) == s.props[CHOOSE i \in 1..Len(s.props) : s.props[i].k = key].v

SPropNames(s) == {s.props[i].k : i \in 1..Len(s.props)}

\* Value.Check(schema, value)
RECURSIVE Check(_, _)
Check(s, x) ==
  CASE s.kind = "string" -> x.t = "str"
    [] s.kind = "number" -> x.t = "num"
    [] s.kind = "boolean" -> x.t = "bool"
    [] s.kind = "record" -> x.t = "obj"
    [] s.kind = "array" ->
         /\ x.t = "arr"
         /\ \A i \in 1..Len(x.v) : Check(s.items, x.v[i])
    [] s.kind = "object" ->
         /\ x.t = "obj"
         /\ \A i \in 1..Len(s.props) :
              /\ HasKey(x, s.props[i].k)
              /\ Check(s.props[i].v, Get(x, s.props[i].k))
         /\ s.additional \/ KeySet(x) \subseteq SPropNames(s)

modernizeSchema == SObject(<< KV("replaceFs", SBoolean) >>, TRUE)

codeStyleSchema ==
  SObject(<< KV("lineWidth", SNumber), KV("modernize", modernizeSchema) >>, TRUE)

featuresSchema ==
  SObject(<< KV("i18n", SBoolean), KV("themeMode", SString) >>, TRUE)

reliverseConfigSchema ==
  SObject(<< KV("projectName", SString),
             KV("projectLicense", SString),
             KV("ignoreDependencies", SArray(SString)),
             KV("customRules", SRecord),
             KV("features", featuresSchema),
             KV("codeStyle", codeStyleSchema),
             KV("customUserFocusedRepos", SArray(SString)) >>, FALSE)

(***************************************************************************)
(* The default document                                                    *)
(***************************************************************************)
UNKNOWN_VALUE == "unknown"

DEFAULT_CONFIG ==
  Obj(<< KV("projectName", Str(UNKNOWN_VALUE)),
         KV("projectLicense", Str("MIT")),
         KV("ignoreDependencies", Arr(<< >>)),
         KV("customRules", Obj(<< >>)),
         KV("features", Obj(<< KV("i18n", Bool("false")),
                               KV("themeMode", Str("dark-light")) >>)),
         KV("codeStyle", Obj(<< KV("lineWidth", Num("80")),
                                KV("modernize",
                                   Obj(<< KV("replaceFs", Bool("false")) >>)) >>)),
         KV("customUserFocusedRepos", Arr(<< >>)) >>)

\* { ...x } of any value: an array spreads to its indices, a string to its
\* characters (kept abstract: one entry per character), other scalars to
\* nothing
SpreadSource(x) ==
  CASE x.t = "obj" -> x
    [] x.t = "arr" -> Obj([i \in 1..Len(x.v) |-> KV(ToString(i - 1), x.v[i])])
    [] x.t = "str" -> Obj([i \in 1..Len(x.v) |-> KV(ToString(i - 1), Str("char"))])
    [] OTHER -> Obj(<< >>)

\* partial.codeStyle?.modernize
OptGet(x, key) == IF x.t \in {"null", "undef"} THEN Undef ELSE Get(x, key)

mergeWithDefaults(partial) ==
  LET D == DEFAULT_CONFIG
      top == Spread(D, SpreadSource(partial))
      features ==
        Spread(Get(D, "features"),
               SpreadSource(Coalesce(Get(partial, "features"), Obj(<< >>))))
      modernize ==
        Spread(Get(Get(D, "codeStyle"), "modernize"),
               SpreadSource(Coalesce(OptGet(Get(partial, "codeStyle"), "modernize"),
                                     Obj(<< >>))))
      codeStyle ==
        Put(Spread(Get(D, "codeStyle"),
                   SpreadSource(Coalesce(Get(partial, "codeStyle"), Obj(<< >>)))),
            "modernize", modernize)
      customRules ==
        Spread(Get(D, "customRules"),
               SpreadSource(Coalesce(Get(partial, "customRules"), Obj(<< >>))))
      ignoreDependencies ==
        Coalesce(Get(partial, "ignoreDependencies"), Get(D, "ignoreDependencies"))
  IN Put(Put(Put(Put(top, "features", features),
                 "codeStyle", codeStyle),
             "customRules", customRules),
         "ignoreDependencies", ignoreDependencies)

(***************************************************************************)
(* Deep merge                                                              *)
(***************************************************************************)
RECURSIVE deepMerge(_, _)
RECURSIVE deepMergeFrom(_, _, _, _)
deepMergeFrom(result, target, source, i) ==
  IF i > Len(source.v) THEN result
  ELSE LET key == source.v[i].k
           sourceValue == source.v[i].v
           targetValue == Get(target, key)
           next ==
             IF sourceValue.t = "undef" THEN result
             ELSE IF IsPlainObject(sourceValue) /\ IsPlainObject(targetValue)
               THEN Put(result, key, deepMerge(targetValue, sourceValue))
               ELSE Put(result, key, sourceValue)
       IN deepMergeFrom(next, target, source, i + 1)

\* a merge one level deep
deepMergeShallow(target, source) == Spread(target, source)

deepMerge(target, source) == deepMergeFrom(Spread(target, Obj(<< >>)), target, source, 1)

(***************************************************************************)
(* Line-by-line repair                                                     *)
(***************************************************************************)
\* String(url)
ToJsString(x) ==
  CASE x.t \in {"str", "num", "bool"} -> x.v
    [] x.t = "null" -> "null"
    [] x.t = "undef" -> "undefined"
    [] x.t = "obj" -> "[object Object]"
    [] OTHER -> "<array>"

\* cleanGitHubUrl on the URLs of the model: the git+ prefix, the host prefix
\* and the .git suffix are each removed once; any other string is unchanged
cleanGitHubUrl(url) ==
  CASE url = "git+https://github.com/a/b.git" -> "a/b"
    [] url = "https://github.com/a/b" -> "a/b"
    [] url = "git+git+a/b" -> "git+a/b"
    [] url = "git+a/b" -> "a/b"
    [] OTHER -> url

\* a schema that asks nothing of the property
createSinglePropertySchemaOpen(key, subSchema) ==
  SObject(<< >>, TRUE)

createSinglePropertySchema(key, subSchema) ==
  SObject(<< KV(key, subSchema) >>, FALSE)

fixSingleProperty(schema, propName, userValue, defaultValue) ==
  LET singlePropertySchema == createSinglePropertySchema(propName, schema)
      testObject == Obj(<< KV(propName, userValue) >>)
  IN IF Check(singlePropertySchema, testObject) THEN userValue ELSE defaultValue

\* The result of one pass: [fixedConfig, changedKeys]
RECURSIVE fixLineByLine(_, _, _)
RECURSIVE fixProps(_, _, _, _, _, _)
fixProps(userConfig, defaultConfig, schema, i, result, changedKeys) ==
  IF i > Len(schema.props)
  THEN [fixedConfig |-> result, changedKeys |-> changedKeys]
  ELSE
    LET propName == schema.props[i].k
        subSchema == schema.props[i].v
        userValue == Get(userConfig, propName)
        defaultValue == Get(defaultConfig, propName)
        isValidStructure ==
          Check(createSinglePropertySchema(propName, subSchema),
                Obj(<< KV(propName, userValue) >>))
        nested == fixLineByLine(userValue, defaultValue, subSchema)
        validatedValue == fixSingleProperty(subSchema, propName, userValue, defaultValue)
    IN IF userValue.t = "undef" /\ ~HasKey(userConfig, propName)
       THEN fixProps(userConfig, defaultConfig, schema, i + 1,
                     Put(result, propName, defaultValue), changedKeys)
       ELSE IF propName \in {"customUserFocusedRepos", "customDevsFocusedRepos"}
               /\ IsArr(userValue)
       THEN fixProps(userConfig, defaultConfig, schema, i + 1,
                     Put(result, propName,
                         Arr([j \in 1..Len(userValue.v) |->
                                Str(cleanGitHubUrl(ToJsString(userValue.v[j])))])),
                     changedKeys)
       ELSE IF ~isValidStructure
       THEN fixProps(userConfig, defaultConfig, schema, i + 1,
                     Put(result, propName, defaultValue),
                     Append(changedKeys, propName))
       ELSE IF SchemaType(subSchema) = "object"
       THEN fixProps(userConfig, defaultConfig, schema, i + 1,
                     Put(result, propName, nested.fixedConfig),
                     changedKeys \o
                       [j \in 1..Len(nested.changedKeys) |->
                          propName \o "." \o nested.changedKeys[j]])
       ELSE fixProps(userConfig, defaultConfig, schema, i + 1,
                     Put(result, propName, validatedValue),
                     IF userValue.t # "undef" /\ validatedValue # userValue
                     THEN Append(changedKeys, propName)
                     ELSE changedKeys)

\* the result starts from the candidate laid over the default
fixLineByLineKeepsUnknown(userConfig, defaultConfig, schema) ==
  LET isObjectSchema == SchemaType(schema) = "object" /\ HasProperties(schema)
  IN IF ~isObjectSchema \/ userConfig.t \notin {"obj", "arr"}
     THEN LET isValid == Check(schema, userConfig)
          IN [fixedConfig |-> IF isValid THEN userConfig ELSE defaultConfig,
              changedKeys |-> IF isValid THEN << >> ELSE << "<entire_object>" >>]
     ELSE fixProps(SpreadSource(userConfig), defaultConfig, schema, 1,
                   Spread(Coalesce(defaultConfig, Obj(<< >>)),
                          SpreadSource(userConfig)), << >>)

fixLineByLine(userConfig, defaultConfig, schema) ==
  LET isObjectSchema == SchemaType(schema) = "object" /\ HasProperties(schema)
  IN IF ~isObjectSchema \/ userConfig.t \notin {"obj", "arr"}
     THEN LET isValid == Check(schema, userConfig)
          IN [fixedConfig |-> IF isValid THEN userConfig ELSE defaultConfig,
              changedKeys |-> IF isValid THEN << >> ELSE << "<entire_object>" >>]
     ELSE fixProps(SpreadSource(userConfig), defaultConfig, schema, 1,
                   Spread(Coalesce(defaultConfig, Obj(<< >>)), Obj(<< >>)), << >>)

(***************************************************************************)
(* File content: the lines of a pretty-printed JSON text.  A line is       *)
(* [ind, key, tok, val]: its indentation level, the key it starts with     *)
(* ("" for none), what follows (an opening or closing bracket, an empty    *)
(* object or array, a scalar of type tok with the text val, a // comment   *)
(* with the text val, or nothing: a blank line), and that text.            *)
(***************************************************************************)
Line(ind, key, tok, val) == [ind |-> ind, key |-> key, tok |-> tok, val |-> val]

BlankLine == Line(0, "", "", "")

GarbageLine == Line(0, "", "garbage", "not json")

\* JSON.stringify(value, null, 2): keys in insertion order, a key whose value
\* is undefined left out, an undefined array element written as null
RECURSIVE Stringify(_, _, _)
RECURSIVE StringifyEntries(_, _, _)
RECURSIVE StringifyItems(_, _, _)
StringifyEntries(entries, i, ind) ==
  IF i > Len(entries) THEN << >>
  ELSE (IF entries[i].v.t = "undef" THEN << >>
        ELSE Stringify(entries[i].v, ind, entries[i].k))
       \o StringifyEntries(entries, i + 1, ind)

StringifyItems(items, i, ind) ==
  IF i > Len(items) THEN << >>
  ELSE Stringify(IF items[i].t = "undef" THEN Null ELSE items[i], ind, "")
       \o StringifyItems(items, i + 1, ind)

Stringify(x, ind, key) ==
  CASE x.t = "obj" ->
         LET inner == StringifyEntries(x.v, 1, ind + 1)
         IN IF inner = << >> THEN << Line(ind, key, "{}", "") >>
            ELSE << Line(ind, key, "{", "") >> \o inner \o << Line(ind, "", "}", "") >>
    [] x.t = "arr" ->
         IF x.v = << >> THEN << Line(ind, key, "[]", "") >>
         ELSE << Line(ind, key, "[", "") >> \o StringifyItems(x.v, 1, ind + 1)
              \o << Line(ind, "", "]", "") >>
    [] OTHER -> << Line(ind, key, x.t, x.v) >>

\* The comment lines of each section, in the order of commentSections
commentSections ==
  << KV("$schema", << "RELIVERSE CONFIG (docs)",
                      "This jsonc file is generated by the cli",
                      "Restart the CLI to apply your config changes" >>),
     KV("projectName", << "General project information" >>),
     KV("skipPromptsUseAutoBehavior",
        << "Enable auto-answering for prompts to skip manual confirmations.",
           "Make sure you have unknown values configured above." >>),
     KV("features", << "Project features" >>),
     KV("projectFramework", << "Primary tech stack/framework" >>),
     KV("codeStyle", << "Code style preferences" >>),
     KV("multipleRepoCloneMode", << "Settings for cloning an existing repo" >>),
     KV("envComposerOpenBrowser",
        << "Set to false to disable opening the browser during env composing" >>),
     KV("ignoreDependencies", << "List dependencies to exclude from checks" >>),
     KV("customRules", << "Custom rules for Reliverse AI" >>),
     KV("deployBehavior", << "Prompt behavior for deployment",
                             "Options: prompt | autoYes | autoNo" >>),
     KV("existingRepoBehavior",
        << "Behavior for existing GitHub repos during project creation",
           "Options: prompt | autoYes | autoYesSkipCommit | autoNo" >>) >>

\* the replacement text without the key it matched: the comments take the
\* place of the line
RECURSIVE InjectSectionDropsKey(_, _, _)
InjectSectionDropsKey(text, section, i) ==
  IF i > Len(text) THEN << >>
  ELSE (IF text[i].key = section.k /\ text[i].tok # "//"
        THEN << BlankLine >>
             \o [j \in 1..Len(section.v) |-> Line(1, "", "//", section.v[j])]
        ELSE << text[i] >>)
       \o InjectSectionDropsKey(text, section, i + 1)

\* fileContent.replace(/(\s+)"section":/g, "\n\n  comments\n  \"section\":"):
\* every line that starts with the key, at any depth, gets a blank line and
\* the comments before it and is itself indented by two spaces
RECURSIVE InjectSection(_, _, _)
InjectSection(text, section, i) ==
  IF i > Len(text) THEN << >>
  ELSE (IF text[i].key = section.k /\ text[i].tok # "//"
        THEN << BlankLine >>
             \o [j \in 1..Len(section.v) |-> Line(1, "", "//", section.v[j])]
             \o << [text[i] EXCEPT !.ind = 1] >>
        ELSE << text[i] >>)
       \o InjectSection(text, section, i + 1)

RECURSIVE InjectAll(_, _)
InjectAll(text, s) ==
  IF s > Len(commentSections) THEN text
  ELSE InjectAll(InjectSection(text, commentSections[s], 1), s + 1)

IsBlank(line) == line.tok = ""

\* .replace(/\n{3,}/g, "\n\n").replace(/{\n\n/g, "{\n").replace(/\n\n}/g, "\n}")
\* a blank line is dropped after another blank line, after a line that ends
\* in an opening brace and before a closing brace at column 0
RECURSIVE CollapseBlank(_, _)
CollapseBlank(text, i) ==
  IF i > Len(text) THEN << >>
  ELSE (IF /\ IsBlank(text[i])
           /\ \/ (i > 1 /\ (IsBlank(text[i - 1]) \/ text[i - 1].tok = "{"))
              \/ (i < Len(text) /\ text[i + 1].tok = "}" /\ text[i + 1].ind = 0)
        THEN << >>
        ELSE << text[i] >>)
       \o CollapseBlank(text, i + 1)

\* .trim(): leading and trailing blank lines go
RECURSIVE TrimText(_)
TrimText(text) ==
  IF text = << >> THEN text
  ELSE IF IsBlank(text[1]) THEN TrimText(Tail(text))
  ELSE IF IsBlank(text[Len(text)]) THEN TrimText(SubSeq(text, 1, Len(text) - 1))
  ELSE text

injectSectionComments(fileContent) ==
  TrimText(CollapseBlank(InjectAll(fileContent, 1), 1))

\* JSON.stringify(config, null, 2) followed by injectSectionComments
Serialize(config) == injectSectionComments(Stringify(config, 0, ""))

\* parseJSONC(content): comments and blank lines are skipped; the parser is
\* fault tolerant, a text that ends early yields what was read so far, and a
\* text that is no JSON at all yields undefined
RECURSIVE ParseValue(_, _)
RECURSIVE ParseMembers(_, _, _)
RECURSIVE ParseItems(_, _, _)
ParseMembers(lines, i, acc) ==
  IF i > Len(lines) THEN [val |-> acc, next |-> i]
  ELSE IF lines[i].tok = "}" THEN [val |-> acc, next |-> i + 1]
  ELSE LET r == ParseValue(lines, i)
       IN ParseMembers(lines, r.next,
                       IF r.val.t = "undef" THEN acc ELSE Put(acc, lines[i].key, r.val))

ParseItems(lines, i, acc) ==
  IF i > Len(lines) THEN [val |-> acc, next |-> i]
  ELSE IF lines[i].tok = "]" THEN [val |-> acc, next |-> i + 1]
  ELSE LET r == ParseValue(lines, i)
       IN ParseItems(lines, r.next, Arr(Append(acc.v, r.val)))

ParseValue(lines, i) ==
  CASE lines[i].tok = "{" -> ParseMembers(lines, i + 1, Obj(<< >>))
    [] lines[i].tok = "[" -> ParseItems(lines, i + 1, Arr(<< >>))
    [] lines[i].tok = "{}" -> [val |-> Obj(<< >>), next |-> i + 1]
    [] lines[i].tok = "[]" -> [val |-> Arr(<< >>), next |-> i + 1]
    [] lines[i].tok \in {"str", "num", "bool", "null"} ->
         [val |-> [t |-> lines[i].tok, v |-> lines[i].val], next |-> i + 1]
    [] OTHER -> [val |-> Undef, next |-> Len(lines) + 1]

StripComments(text) == SelectSeq(text, LAMBDA l : l.tok \notin {"//", ""})

parseJSONC(content) ==
  LET lines == StripComments(content)
  IN IF lines = << >> THEN Undef ELSE ParseValue(lines, 1).val

(***************************************************************************)
(* parseReliverseFile on the content read: null, or the parsed value with  *)
(* whether it has schema errors                                            *)
(***************************************************************************)
NoResult == [ok |-> FALSE, parsed |-> Undef, errors |-> FALSE]

\* typeof parsed === "object" with parsed truthy: objects and arrays
IsJsObject(x) == x.t \in {"obj", "arr"}

\* an empty object is parsed and checked like any other content
parseReliverseFileChecksEmpty(data) ==
  LET content == TrimText(data)
      parsed == parseJSONC(content)
  IN IF content = << >>
     THEN NoResult
     ELSE IF ~(parsed.t \in {"obj", "arr"}) THEN NoResult
     ELSE [ok |-> TRUE, parsed |-> parsed,
           errors |-> ~Check(reliverseConfigSchema, parsed)]

parseReliverseFile(data) ==
  LET content == TrimText(data)
      parsed == parseJSONC(content)
  IN IF content = << >> \/ content = << Line(0, "", "{}", "") >>
     THEN NoResult
     ELSE IF ~IsJsObject(parsed) THEN NoResult
     ELSE [ok |-> TRUE, parsed |-> parsed,
           errors |-> ~Check(reliverseConfigSchema, parsed)]

(***************************************************************************)
(* The documents and file contents of the model                            *)
(***************************************************************************)
\* two documents that validate
DocA == Put(DEFAULT_CONFIG, "projectName", Str("app"))

DocB ==
  Put(Put(Put(DocA, "projectLicense", Str("Apache-2.0")),
          "customRules", Obj(<< KV("features", Str("x")) >>)),
      "features", Obj(<< KV("themeMode", Str("dark")), KV("i18n", Bool("true")) >>))

\* a document that does not: codeStyle.lineWidth is a string
DocBad ==
  Put(DocA, "codeStyle",
      Put(Get(DocA, "codeStyle"), "lineWidth", Str("wide")))

\* hand-edited contents: keys missing (defaults fill them), a scalar of the
\* wrong type (only field repair fixes it), no JSON at all, an empty object
TextMissing == Stringify(Obj(<< KV("projectName", Str("app")) >>), 0, "")

TextWrongType == Stringify(Put(DocA, "projectLicense", Num("5")), 0, "")

TextGarbage == << GarbageLine >>

TextEmptyObject == << Line(0, "", "{}", "") >>

\* an empty file
TextEmpty == << >>

\* a section set to null by hand: the defaults of the section fill it
TextNullSection == Stringify(Put(DocA, "features", Null), 0, "")

\* what an interrupted copy or writeFile leaves of a content: its first half
Truncate(data) == SubSeq(data, 1, Len(data) \div 2)

WriteDocs == {DocA, DocB, DocBad}

UpdateDocs ==
  { Obj(<< KV("projectLicense", Str("GPL-3.0")) >>),
    Obj(<< KV("features", Obj(<< KV("i18n", Bool("true")) >>)) >>),
    Obj(<< KV("projectLicense", Num("7")) >>),
    DocB }

(***************************************************************************)
(* The file system: the primary file, path.backup and path.tmp             *)
(***************************************************************************)
File(data) == [exists |-> TRUE, data |-> data]

NoFile == [exists |-> FALSE, data |-> << >>]

PrimaryContents ==
  { Serialize(DocA), TextMissing, TextWrongType, TextGarbage, TextEmptyObject,
    TextEmpty, TextNullSection }

\* what a hand edit between two calls leaves: a valid document or one with a
\* field of the wrong type
EditedContents == { Serialize(DocA), TextWrongType }

(***************************************************************************)
(* Paths.  A path is the sequence of the parts of its file name, so that   *)
(* configPath + BACKUP_EXTENSION is the path with one more part and        *)
(* endsWith looks at the last part.  The disk maps every path to a file.   *)
(***************************************************************************)
cliConfigJsonc == "reliverse.jsonc"

BACKUP_EXTENSION == ".backup"

TEMP_EXTENSION == ".tmp"

\* configPath + BACKUP_EXTENSION
backupPathOf(configPath) == Append(configPath, BACKUP_EXTENSION)

\* one temp file for the whole folder
tempPathInFolder(configPath) == << "a.", cliConfigJsonc, TEMP_EXTENSION >>

\* configPath + TEMP_EXTENSION
tempPathOf(configPath) == Append(configPath, TEMP_EXTENSION)

\* item.endsWith(cliConfigJsonc)
EndsWithConfigName(item) == item[Len(item)] = cliConfigJsonc

\* the entries the reli folder may hold, in the order readdir lists them:
\* two configs with their backup and temp siblings, and another file
ConfigPaths == << << "a.", cliConfigJsonc >>, << "b.", cliConfigJsonc >> >>

DirEntries ==
  << ConfigPaths[1], backupPathOf(ConfigPaths[1]), tempPathOf(ConfigPaths[1]),
     ConfigPaths[2], backupPathOf(ConfigPaths[2]), tempPathOf(ConfigPaths[2]),
     << "notes.txt" >> >>

DiskPaths == {DirEntries[i] : i \in 1..Len(DirEntries)}

\* the files a call on configPath sees, and the disk after its steps
View(disk, configPath) ==
  [cfg |-> disk[configPath],
   backup |-> disk[backupPathOf(configPath)],
   tmp |-> disk[tempPathOf(configPath)]]

Store(disk, configPath, files) ==
  [q \in DOMAIN disk |->
     IF q = tempPathOf(configPath) THEN files.tmp
     ELSE IF q = backupPathOf(configPath) THEN files.backup
     ELSE IF q = configPath THEN files.cfg
     ELSE disk[q]]

\* the number of calls made, of I/O faults injected into one call, and of
\* edits the user makes to the primary file between calls
MaxCalls == 2

MaxFaults == 2

MaxEdits == 1

VARIABLES fs, pc, frame, pre, out, faults, calls, edits, ext, batch, heap

vars == << fs, pc, frame, pre, out, faults, calls, edits, ext, batch, heap >>

\* the frame of the call in progress: the operation called, its argument, the
\* caller writeReliverseConfig returns to, the config it writes, the value
\* read parsed, and the error the catch block holds
NoFrame ==
  [op |-> "none", arg |-> Undef, ret |-> "top", wcfg |-> Undef,
   parsed |-> Undef, err |-> "none"]

\* the outcome of the call: the error it raised, the value it returned, the
\* recovery layer that produced it, and what the cleanup did
NoOut ==
  [thrown |-> "none", result |-> Undef, layer |-> "none",
   tmpTried |-> FALSE, restoreFailed |-> FALSE, committed |-> FALSE]

\* the concurrent calls of a batch or of two processes: the call whose step
\* comes next is held in fs, pc, frame, pre, out and faults, the others are
\* parked; every call works on the files of its own path on the one disk
NoBatch ==
  [kind |-> "none", cur |-> 0, path |-> << >>, parked |-> << >>,
   disk |-> << >>, start |-> << >>, status |-> "none", error |-> "none",
   configs |-> << >>, renames |-> << >>]

(***************************************************************************)
(* Objects by reference.  The heap maps an address to the object there;    *)
(* a field that holds an object holds a reference to it, so that two       *)
(* objects made by a shallow copy share their nested objects.              *)
(***************************************************************************)
Ref(addr) == [t |-> "ref", v |-> addr]

\* DEFAULT_CONFIG.preferredLibraries, of which the reduced document of the
\* file model has no part
DEFAULT_LIBRARIES ==
  Obj(<< KV("styling", Str("tailwind")), KV("authentication", Str("clerk")),
         KV("database", Str("drizzle")) >>)

DefaultDocument == Put(DEFAULT_CONFIG, "preferredLibraries", DEFAULT_LIBRARIES)

\* the addresses of DEFAULT_CONFIG and its nested objects, and those of the
\* objects the functions allocate
DefaultAddresses ==
  { "DEFAULT_CONFIG", "DEFAULT_CONFIG.customRules", "DEFAULT_CONFIG.features",
    "DEFAULT_CONFIG.codeStyle", "DEFAULT_CONFIG.codeStyle.modernize",
    "DEFAULT_CONFIG.preferredLibraries" }

AllocatedAddresses ==
  { "rules", "rules.codeStyle", "rules.features", "rules.preferredLibraries",
    "result" }

\* the value the object literal gives the object at an address
DefaultValueAt(addr) ==
  CASE addr = "DEFAULT_CONFIG" -> DefaultDocument
    [] addr = "DEFAULT_CONFIG.customRules" -> Get(DefaultDocument, "customRules")
    [] addr = "DEFAULT_CONFIG.features" -> Get(DefaultDocument, "features")
    [] addr = "DEFAULT_CONFIG.codeStyle" -> Get(DefaultDocument, "codeStyle")
    [] addr = "DEFAULT_CONFIG.codeStyle.modernize" ->
         Get(Get(DefaultDocument, "codeStyle"), "modernize")
    [] addr = "DEFAULT_CONFIG.preferredLibraries" ->
         Get(DefaultDocument, "preferredLibraries")

\* the object at addr, its nested objects replaced by references
Shallow(addr, value) ==
  Obj([i \in 1..Len(value.v) |->
         KV(value.v[i].k,
            IF IsObj(value.v[i].v) THEN Ref(addr \o "." \o value.v[i].k)
            ELSE value.v[i].v)])

\* the heap once the module is loaded
DefaultHeap ==
  [addr \in DefaultAddresses \cup AllocatedAddresses |->
     IF addr \in DefaultAddresses THEN Shallow(addr, DefaultValueAt(addr))
     ELSE Undef]

\* the value reached from x, references followed
RECURSIVE Reify(_, _)
Reify(h, x) ==
  CASE x.t = "ref" -> Reify(h, h[x.v])
    [] x.t = "obj" -> Obj([i \in 1..Len(x.v) |-> KV(x.v[i].k, Reify(h, x.v[i].v))])
    [] OTHER -> x

Init ==
  /\ batch = NoBatch
  /\ heap = DefaultHeap
  /\ fs \in [cfg : {NoFile} \cup {File(d) : d \in PrimaryContents},
             backup : {NoFile},
             tmp : {NoFile}]
  /\ pc = "idle"
  /\ frame = NoFrame
  /\ pre = fs
  /\ out = NoOut
  /\ faults = 0
  /\ calls = 0
  /\ edits = 0
  /\ ext = NoFile

\* a failed or interrupted copy or writeFile leaves the target as it was or
\* holding the first part of the content
PartialOutcomes(target, data) == {target, File(Truncate(data))}

Begin(operation, argument, first) ==
  /\ pc = "idle"
  /\ calls < MaxCalls
  /\ calls' = calls + 1
  /\ faults' = 0
  /\ pre' = fs
  /\ out' = NoOut
  /\ frame' = [NoFrame EXCEPT !.op = operation, !.arg = argument,
                              !.wcfg = IF operation = "write" THEN argument ELSE Undef]
  /\ pc' = first
  /\ UNCHANGED << fs, edits, ext, batch, heap >>

CallWrite == \E config \in WriteDocs : Begin("write", config, "w_validate")

CallUpdate == \E updates \in UpdateDocs : Begin("update", updates, "u_read")

CallRead == Begin("read", Undef, "r_parse")

CallReRead == Begin("reread", Undef, "r_parse")

Fault == /\ faults < MaxFaults
         /\ faults' = faults + 1

(***************************************************************************)
(* writeReliverseConfig(configPath, config)                                *)
(***************************************************************************)
\* writeReliverseConfig returns: to the caller of the API, to
\* readReliverseConfig, which returns the merged config, or to
\* parseAndFixConfig, which returns the fixed one
WriteReturned(o) ==
  /\ pc' = "done"
  /\ out' = CASE frame.ret = "read" -> [o EXCEPT !.result = frame.wcfg, !.layer = "merge"]
              [] frame.ret = "fix" -> [o EXCEPT !.result = frame.wcfg, !.layer = "repair"]
              [] OTHER -> o

\* writeReliverseConfig throws e: readReliverseConfig lets it through,
\* parseAndFixConfig catches it and returns null
WriteThrew(e, o) ==
  /\ pc' = "done"
  /\ out' = IF frame.ret = "fix"
            THEN [o EXCEPT !.result = Null, !.layer = "giveup"]
            ELSE [o EXCEPT !.thrown = e]

\* Value.Check(reliverseConfigSchema, config), and the throw when it fails
WValidate ==
  /\ pc = "w_validate"
  /\ IF Check(reliverseConfigSchema, frame.wcfg)
     THEN /\ pc' = "w_backup"
          /\ UNCHANGED frame
     ELSE /\ pc' = "wc_restore"
          /\ frame' = [frame EXCEPT !.err = "invalid"]
  /\ UNCHANGED << fs, pre, out, faults, calls, edits, ext, batch, heap >>

\* the primary file moved to backupPath, where the code copies it
WBackupMoves ==
  /\ pc = "w_backup"
  /\ fs' = IF fs.cfg.exists THEN [fs EXCEPT !.backup = fs.cfg, !.cfg = NoFile] ELSE fs
  /\ pc' = "w_tmp"
  /\ UNCHANGED << frame, pre, out, faults, calls, edits, ext, batch, heap >>

\* if (pathExists(configPath)) copy(configPath, backupPath)
WBackup ==
  /\ pc = "w_backup"
  /\ fs' = IF fs.cfg.exists THEN [fs EXCEPT !.backup = fs.cfg] ELSE fs
  /\ pc' = "w_tmp"
  /\ UNCHANGED << frame, pre, out, faults, calls, edits, ext, batch, heap >>

WBackupFail ==
  /\ pc = "w_backup"
  /\ fs.cfg.exists
  /\ Fault
  /\ \E b \in PartialOutcomes(fs.backup, fs.cfg.data) : fs' = [fs EXCEPT !.backup = b]
  /\ frame' = [frame EXCEPT !.err = "copy"]
  /\ pc' = "wc_restore"
  /\ UNCHANGED << pre, out, calls, edits, ext, batch, heap >>

\* writeFile straight to configPath, with no staging file
WTmpInPlace ==
  /\ pc = "w_tmp"
  /\ fs' = [fs EXCEPT !.cfg = File(Serialize(frame.wcfg))]
  /\ pc' = "w_rename"
  /\ UNCHANGED << frame, pre, out, faults, calls, edits, ext, batch, heap >>

\* writeFile(tempPath, fileContent)
WTmp ==
  /\ pc = "w_tmp"
  /\ fs' = [fs EXCEPT !.tmp = File(Serialize(frame.wcfg))]
  /\ pc' = "w_rename"
  /\ UNCHANGED << frame, pre, out, faults, calls, edits, ext, batch, heap >>

WTmpFail ==
  /\ pc = "w_tmp"
  /\ Fault
  /\ \E t \in PartialOutcomes(fs.tmp, Serialize(frame.wcfg)) : fs' = [fs EXCEPT !.tmp = t]
  /\ frame' = [frame EXCEPT !.err = "writeFile"]
  /\ pc' = "wc_restore"
  /\ UNCHANGED << pre, out, calls, edits, ext, batch, heap >>

\* rename(tempPath, configPath); it throws when tempPath does not exist,
\* which only another process that renamed or removed it brings about.  Of
\* two processes on one path the order of their renames is kept.
WRename ==
  /\ pc = "w_rename"
  /\ IF fs.tmp.exists
     THEN /\ fs' = [fs EXCEPT !.cfg = fs.tmp, !.tmp = NoFile]
          /\ out' = [out EXCEPT !.committed = TRUE]
          /\ pc' = "w_cleanup"
          /\ batch' = IF batch.kind = "race"
                      THEN [batch EXCEPT !.renames = Append(@, batch.cur)]
                      ELSE batch
          /\ UNCHANGED frame
     ELSE /\ frame' = [frame EXCEPT !.err = "rename"]
          /\ pc' = "wc_restore"
          /\ UNCHANGED << fs, out, batch >>
  /\ UNCHANGED << pre, faults, calls, edits, ext, heap >>

WRenameFail ==
  /\ pc = "w_rename"
  /\ Fault
  /\ frame' = [frame EXCEPT !.err = "rename"]
  /\ pc' = "wc_restore"
  /\ UNCHANGED << fs, pre, out, calls, edits, ext, batch, heap >>

\* only the backup this call made is removed
WCleanupOwnBackup ==
  /\ pc = "w_cleanup"
  /\ fs' = IF pre.cfg.exists THEN [fs EXCEPT !.backup = NoFile] ELSE fs
  /\ WriteReturned(out)
  /\ UNCHANGED << frame, pre, faults, calls, edits, ext, batch, heap >>

\* if (pathExists(backupPath)) remove(backupPath), then the return
WCleanup ==
  /\ pc = "w_cleanup"
  /\ fs' = [fs EXCEPT !.backup = NoFile]
  /\ WriteReturned(out)
  /\ UNCHANGED << frame, pre, faults, calls, edits, ext, batch, heap >>

WCleanupFail ==
  /\ pc = "w_cleanup"
  /\ fs.backup.exists
  /\ Fault
  /\ frame' = [frame EXCEPT !.err = "removeBackup"]
  /\ pc' = "wc_restore"
  /\ UNCHANGED << fs, pre, out, calls, edits, ext, batch, heap >>

\* catch: if (pathExists(backupPath) && !pathExists(configPath))
\*          copy(backupPath, configPath)
WCatchRestore ==
  /\ pc = "wc_restore"
  /\ fs' = IF fs.backup.exists /\ ~fs.cfg.exists
           THEN [fs EXCEPT !.cfg = fs.backup] ELSE fs
  /\ pc' = "wc_tmp"
  /\ UNCHANGED << frame, pre, out, faults, calls, edits, ext, batch, heap >>

\* the restoring copy throws: its error leaves writeReliverseConfig at once
WCatchRestoreFail ==
  /\ pc = "wc_restore"
  /\ fs.backup.exists /\ ~fs.cfg.exists
  /\ Fault
  /\ \E c \in PartialOutcomes(fs.cfg, fs.backup.data) : fs' = [fs EXCEPT !.cfg = c]
  /\ WriteThrew("restoreCopy", [out EXCEPT !.restoreFailed = TRUE])
  /\ UNCHANGED << frame, pre, calls, edits, ext, batch, heap >>

\* catch: if (pathExists(tempPath)) remove(tempPath); throw error
WCatchTmp ==
  /\ pc = "wc_tmp"
  /\ fs' = [fs EXCEPT !.tmp = NoFile]
  /\ WriteThrew(frame.err, [out EXCEPT !.tmpTried = TRUE])
  /\ UNCHANGED << frame, pre, faults, calls, edits, ext, batch, heap >>

WCatchTmpFail ==
  /\ pc = "wc_tmp"
  /\ fs.tmp.exists
  /\ Fault
  /\ WriteThrew("removeTmp", [out EXCEPT !.tmpTried = TRUE])
  /\ UNCHANGED << fs, frame, pre, calls, edits, ext, batch, heap >>

(***************************************************************************)
(* updateReliverseConfig(projectPath, updates)                             *)
(***************************************************************************)
\* updateReliverseConfig returns: to the caller of the API, or to
\* migrateReliverseConfig, which goes on to remove the external file
UpdateReturned(o) ==
  /\ pc' = IF frame.op = "migrate" THEN "m_remove" ELSE "done"
  /\ out' = o

\* updateReliverseConfig throws e: migrateReliverseConfig catches it and logs
UpdateThrew(e, o) ==
  /\ pc' = "done"
  /\ out' = IF frame.op = "migrate" THEN o ELSE [o EXCEPT !.thrown = e]

\* the backup is made before the merged config is validated
UReadBacksUpFirst ==
  /\ pc = "u_read"
  /\ LET parsed == parseJSONC(fs.cfg.data)
         existingConfig ==
           IF fs.cfg.exists /\ Check(reliverseConfigSchema, parsed)
           THEN parsed ELSE Obj(<< >>)
         mergedConfig == deepMerge(existingConfig, frame.arg)
     IN IF Check(reliverseConfigSchema, mergedConfig)
        THEN /\ frame' = [frame EXCEPT !.wcfg = mergedConfig]
             /\ pc' = "u_backup"
             /\ UNCHANGED out
        ELSE /\ UpdateReturned([out EXCEPT !.result = Bool("false")])
             /\ UNCHANGED frame
  /\ fs' = IF fs.cfg.exists THEN [fs EXCEPT !.backup = fs.cfg] ELSE fs
  /\ UNCHANGED << pre, faults, calls, edits, ext, batch, heap >>

\* the existing config read (an empty object when the file is missing or
\* does not validate), the merge, its validation and the early return false
URead ==
  /\ pc = "u_read"
  /\ LET parsed == parseJSONC(fs.cfg.data)
         existingConfig ==
           IF fs.cfg.exists /\ Check(reliverseConfigSchema, parsed)
           THEN parsed ELSE Obj(<< >>)
         mergedConfig == deepMerge(existingConfig, frame.arg)
     IN IF Check(reliverseConfigSchema, mergedConfig)
        THEN /\ frame' = [frame EXCEPT !.wcfg = mergedConfig]
             /\ pc' = "u_backup"
             /\ UNCHANGED out
        ELSE /\ UpdateReturned([out EXCEPT !.result = Bool("false")])
             /\ UNCHANGED frame
  /\ UNCHANGED << fs, pre, faults, calls, edits, ext, batch, heap >>

\* readFile(configPath) throws
UReadFail ==
  /\ pc = "u_read"
  /\ fs.cfg.exists
  /\ Fault
  /\ frame' = [frame EXCEPT !.err = "readFile"]
  /\ pc' = "uc_restore"
  /\ UNCHANGED << fs, pre, out, calls, edits, ext, batch, heap >>

UBackup ==
  /\ pc = "u_backup"
  /\ fs' = IF fs.cfg.exists THEN [fs EXCEPT !.backup = fs.cfg] ELSE fs
  /\ pc' = "u_tmp"
  /\ UNCHANGED << frame, pre, out, faults, calls, edits, ext, batch, heap >>

UBackupFail ==
  /\ pc = "u_backup"
  /\ fs.cfg.exists
  /\ Fault
  /\ \E b \in PartialOutcomes(fs.backup, fs.cfg.data) : fs' = [fs EXCEPT !.backup = b]
  /\ frame' = [frame EXCEPT !.err = "copy"]
  /\ pc' = "uc_restore"
  /\ UNCHANGED << pre, out, calls, edits, ext, batch, heap >>

UTmp ==
  /\ pc = "u_tmp"
  /\ fs' = [fs EXCEPT !.tmp = File(Serialize(frame.wcfg))]
  /\ pc' = "u_rename"
  /\ UNCHANGED << frame, pre, out, faults, calls, edits, ext, batch, heap >>

UTmpFail ==
  /\ pc = "u_tmp"
  /\ Fault
  /\ \E t \in PartialOutcomes(fs.tmp, Serialize(frame.wcfg)) : fs' = [fs EXCEPT !.tmp = t]
  /\ frame' = [frame EXCEPT !.err = "writeFile"]
  /\ pc' = "uc_restore"
  /\ UNCHANGED << pre, out, calls, edits, ext, batch, heap >>

URename ==
  /\ pc = "u_rename"
  /\ fs' = [fs EXCEPT !.cfg = fs.tmp, !.tmp = NoFile]
  /\ out' = [out EXCEPT !.committed = TRUE]
  /\ pc' = "u_cleanup"
  /\ UNCHANGED << frame, pre, faults, calls, edits, ext, batch, heap >>

URenameFail ==
  /\ pc = "u_rename"
  /\ Fault
  /\ frame' = [frame EXCEPT !.err = "rename"]
  /\ pc' = "uc_restore"
  /\ UNCHANGED << fs, pre, out, calls, edits, ext, batch, heap >>

\* the backup removed, and return true
UCleanup ==
  /\ pc = "u_cleanup"
  /\ fs' = [fs EXCEPT !.backup = NoFile]
  /\ UpdateReturned([out EXCEPT !.result = Bool("true")])
  /\ UNCHANGED << frame, pre, faults, calls, edits, ext, batch, heap >>

UCleanupFail ==
  /\ pc = "u_cleanup"
  /\ fs.backup.exists
  /\ Fault
  /\ frame' = [frame EXCEPT !.err = "removeBackup"]
  /\ pc' = "uc_restore"
  /\ UNCHANGED << fs, pre, out, calls, edits, ext, batch, heap >>

\* catch: the restore from the backup, in a try of its own
UCatchRestore ==
  /\ pc = "uc_restore"
  /\ fs' = IF fs.backup.exists /\ ~fs.cfg.exists
           THEN [fs EXCEPT !.cfg = fs.backup] ELSE fs
  /\ pc' = "uc_tmp"
  /\ UNCHANGED << frame, pre, out, faults, calls, edits, ext, batch, heap >>

\* the restoring copy throws: the error is logged and the catch goes on
UCatchRestoreFail ==
  /\ pc = "uc_restore"
  /\ fs.backup.exists /\ ~fs.cfg.exists
  /\ Fault
  /\ \E c \in PartialOutcomes(fs.cfg, fs.backup.data) : fs' = [fs EXCEPT !.cfg = c]
  /\ out' = [out EXCEPT !.restoreFailed = TRUE]
  /\ pc' = "uc_tmp"
  /\ UNCHANGED << frame, pre, calls, edits, ext, batch, heap >>

\* the catch block returns false and leaves the temp file
UCatchTmpKeeps ==
  /\ pc = "uc_tmp"
  /\ UpdateReturned([out EXCEPT !.result = Bool("false")])
  /\ UNCHANGED << fs, frame, pre, faults, calls, edits, ext, batch, heap >>

\* catch: the temp file removed, and return false
UCatchTmp ==
  /\ pc = "uc_tmp"
  /\ fs' = [fs EXCEPT !.tmp = NoFile]
  /\ UpdateReturned([out EXCEPT !.tmpTried = TRUE, !.result = Bool("false")])
  /\ UNCHANGED << frame, pre, faults, calls, edits, ext, batch, heap >>

\* remove(tempPath) throws inside the catch block: the call raises it
UCatchTmpFail ==
  /\ pc = "uc_tmp"
  /\ fs.tmp.exists
  /\ Fault
  /\ UpdateThrew("removeTmp", [out EXCEPT !.tmpTried = TRUE])
  /\ UNCHANGED << fs, frame, pre, calls, edits, ext, batch, heap >>

(***************************************************************************)
(* readReliverseConfig(configPath), and parseAndFixConfig(configPath)      *)
(* after it in reReadReliverseConfig                                       *)
(***************************************************************************)
\* readReliverseConfig returns null: reReadReliverseConfig goes on with
\* parseAndFixConfig
ReadReturnsNull ==
  IF frame.op = "reread"
  THEN /\ pc' = "f_read"
       /\ UNCHANGED out
  ELSE /\ pc' = "done"
       /\ out' = [out EXCEPT !.result = Null, !.layer = "giveup"]

\* pathExists(configPath), parseReliverseFile(configPath), and the return of
\* a parsed config without errors
RParse ==
  /\ pc = "r_parse"
  /\ LET parseResult == parseReliverseFile(fs.cfg.data)
     IN IF ~fs.cfg.exists \/ ~parseResult.ok
        THEN ReadReturnsNull /\ UNCHANGED frame
        ELSE IF ~parseResult.errors
        THEN /\ pc' = "done"
             /\ out' = [out EXCEPT !.result = parseResult.parsed, !.layer = "accept"]
             /\ UNCHANGED frame
        ELSE /\ pc' = "r_merge"
             /\ frame' = [frame EXCEPT !.parsed = parseResult.parsed]
             /\ UNCHANGED out
  /\ UNCHANGED << fs, pre, faults, calls, edits, ext, batch, heap >>

\* readFile throws inside parseReliverseFile, whose catch returns null
RParseFail ==
  /\ pc = "r_parse"
  /\ fs.cfg.exists
  /\ Fault
  /\ ReadReturnsNull
  /\ UNCHANGED << fs, frame, pre, calls, edits, ext, batch, heap >>

\* the merged config is returned and not written
RMergeReturnsUnwritten ==
  /\ pc = "r_merge"
  /\ LET merged == mergeWithDefaults(frame.parsed)
     IN IF Check(reliverseConfigSchema, merged)
        THEN /\ pc' = "done"
             /\ out' = [out EXCEPT !.result = merged, !.layer = "merge"]
             /\ UNCHANGED frame
        ELSE IF fs.backup.exists
        THEN /\ pc' = "r_backup"
             /\ UNCHANGED << frame, out >>
        ELSE ReadReturnsNull /\ UNCHANGED frame
  /\ UNCHANGED << fs, pre, faults, calls, edits, ext, batch, heap >>

\* mergeWithDefaults(parsed): valid, it is written; if not, the backup is
\* looked for
RMerge ==
  /\ pc = "r_merge"
  /\ LET merged == mergeWithDefaults(frame.parsed)
     IN IF Check(reliverseConfigSchema, merged)
        THEN /\ frame' = [frame EXCEPT !.wcfg = merged, !.ret = "read"]
             /\ pc' = "w_validate"
             /\ UNCHANGED out
        ELSE IF fs.backup.exists
        THEN /\ pc' = "r_backup"
             /\ UNCHANGED << frame, out >>
        ELSE ReadReturnsNull /\ UNCHANGED frame
  /\ UNCHANGED << fs, pre, faults, calls, edits, ext, batch, heap >>

\* a backup that does not validate makes the read raise
RBackupRaises ==
  /\ pc = "r_backup"
  /\ LET backupResult == parseReliverseFile(fs.backup.data)
     IN IF backupResult.ok /\ ~backupResult.errors
        THEN /\ pc' = "r_restore"
             /\ UNCHANGED out
        ELSE /\ pc' = "done"
             /\ out' = [out EXCEPT !.thrown = "invalidBackup"]
  /\ UNCHANGED << fs, frame, pre, faults, calls, edits, ext, batch, heap >>

\* parseReliverseFile(backupPath)
RBackup ==
  /\ pc = "r_backup"
  /\ LET backupResult == parseReliverseFile(fs.backup.data)
     IN IF backupResult.ok /\ ~backupResult.errors
        THEN /\ pc' = "r_restore"
             /\ UNCHANGED out
        ELSE ReadReturnsNull
  /\ UNCHANGED << fs, frame, pre, faults, calls, edits, ext, batch, heap >>

RBackupFail ==
  /\ pc = "r_backup"
  /\ Fault
  /\ ReadReturnsNull
  /\ UNCHANGED << fs, frame, pre, calls, edits, ext, batch, heap >>

\* the backup is moved onto the primary path
RRestoreMoves ==
  /\ pc = "r_restore"
  /\ fs' = [fs EXCEPT !.cfg = fs.backup, !.backup = NoFile]
  /\ out' = [out EXCEPT !.result = parseJSONC(fs.backup.data), !.layer = "backup"]
  /\ pc' = "done"
  /\ UNCHANGED << frame, pre, faults, calls, edits, ext, batch, heap >>

\* copy(backupPath, configPath) and the return of the parsed backup
RRestore ==
  /\ pc = "r_restore"
  /\ fs' = [fs EXCEPT !.cfg = fs.backup]
  /\ out' = [out EXCEPT !.result = parseJSONC(fs.backup.data), !.layer = "backup"]
  /\ pc' = "done"
  /\ UNCHANGED << frame, pre, faults, calls, edits, ext, batch, heap >>

\* the copy throws: nothing in readReliverseConfig catches it
RRestoreFail ==
  /\ pc = "r_restore"
  /\ Fault
  /\ \E c \in PartialOutcomes(fs.cfg, fs.backup.data) : fs' = [fs EXCEPT !.cfg = c]
  /\ out' = [out EXCEPT !.thrown = "restoreCopy"]
  /\ pc' = "done"
  /\ UNCHANGED << frame, pre, calls, edits, ext, batch, heap >>

\* parseAndFixConfig: the file read and parsed again, returned if it has no
\* errors, else repaired line by line and, if the repair validates, written
FRead ==
  /\ pc = "f_read"
  /\ LET parsed == parseJSONC(fs.cfg.data)
         fixed == fixLineByLine(parsed, DEFAULT_CONFIG, reliverseConfigSchema)
     IN IF ~fs.cfg.exists \/ ~IsJsObject(parsed)
        THEN /\ pc' = "done"
             /\ out' = [out EXCEPT !.result = Null, !.layer = "giveup"]
             /\ UNCHANGED frame
        ELSE IF Check(reliverseConfigSchema, parsed)
        THEN /\ pc' = "done"
             /\ out' = [out EXCEPT !.result = parsed, !.layer = "accept"]
             /\ UNCHANGED frame
        ELSE IF Check(reliverseConfigSchema, fixed.fixedConfig)
        THEN /\ frame' = [frame EXCEPT !.wcfg = fixed.fixedConfig, !.ret = "fix",
                                       !.parsed = parsed]
             /\ pc' = "w_validate"
             /\ UNCHANGED out
        ELSE /\ pc' = "done"
             /\ out' = [out EXCEPT !.result = Null, !.layer = "giveup"]
             /\ UNCHANGED frame
  /\ UNCHANGED << fs, pre, faults, calls, edits, ext, batch, heap >>

\* readFile throws inside parseAndFixConfig, whose catch returns null
FReadFail ==
  /\ pc = "f_read"
  /\ fs.cfg.exists
  /\ Fault
  /\ pc' = "done"
  /\ out' = [out EXCEPT !.result = Null, !.layer = "giveup"]
  /\ UNCHANGED << fs, frame, pre, calls, edits, ext, batch, heap >>

(***************************************************************************)
(* migrateReliverseConfig(externalReliverseFilePath, projectPath)          *)
(***************************************************************************)
\* the keys considered for migration, of those the modelled document has
keysToMigrate ==
  << "projectLicense", "features", "codeStyle", "ignoreDependencies", "customRules" >>

\* every defined field of the external document is taken
validConfigFromAnyKey(tempConfig, i, validConfig) ==
  Obj(SelectSeq(tempConfig.v, LAMBDA entry : entry.v.t # "undef"))

\* for (const key of keysToMigrate)
\*   if (tempConfig[key] !== undefined) validConfig[key] = tempConfig[key]
RECURSIVE validConfigFrom(_, _, _)
validConfigFrom(tempConfig, i, validConfig) ==
  IF i > Len(keysToMigrate) THEN validConfig
  ELSE validConfigFrom(tempConfig, i + 1,
         IF Get(tempConfig, keysToMigrate[i]).t # "undef"
         THEN Put(validConfig, keysToMigrate[i], Get(tempConfig, keysToMigrate[i]))
         ELSE validConfig)

\* external documents: allow-listed and other keys, partial nested objects
\* next to a schema key outside the allow-list, a value of the wrong type,
\* and no JSON at all
ExtMixed ==
  Obj(<< KV("unknownField", Num("1")), KV("projectLicense", Str("GPL-3.0")),
         KV("projectName", Str("other")) >>)

ExtNested ==
  Obj(<< KV("projectName", Str("other")),
         KV("features", Obj(<< KV("i18n", Bool("true")) >>)),
         KV("codeStyle", Obj(<< KV("lineWidth", Num("100")) >>)),
         KV("ignoreDependencies", Arr(<< Str("left-pad") >>)) >>)

ExtWrongType == Obj(<< KV("projectLicense", Num("7")) >>)

ExternalContents ==
  { Stringify(ExtMixed, 0, ""), Stringify(ExtNested, 0, ""),
    Stringify(ExtWrongType, 0, ""), TextGarbage }

\* the caller has put the external file in place and calls migrate
CallMigrate ==
  /\ pc = "idle"
  /\ calls < MaxCalls
  /\ calls' = calls + 1
  /\ faults' = 0
  /\ pre' = fs
  /\ out' = NoOut
  /\ \E content \in ExternalContents : ext' = File(content)
  /\ frame' = [NoFrame EXCEPT !.op = "migrate"]
  /\ pc' = "m_read"
  /\ UNCHANGED << fs, edits, batch, heap >>

\* the external file read and parsed, the throw on a content that is no
\* object, the allow-listed fields picked, and the call of update
MRead ==
  /\ pc = "m_read"
  /\ LET parsed == parseJSONC(ext.data)
     IN IF ~IsJsObject(parsed)
        THEN /\ frame' = [frame EXCEPT !.err = "format"]
             /\ pc' = "done"
        ELSE /\ frame' = [frame EXCEPT
                            !.parsed = parsed,
                            !.arg = validConfigFrom(SpreadSource(parsed), 1, Obj(<< >>))]
             /\ pc' = "u_read"
  /\ UNCHANGED << fs, pre, out, faults, calls, edits, ext, batch, heap >>

\* readFile of the external file throws: the catch block logs it
MReadFail ==
  /\ pc = "m_read"
  /\ Fault
  /\ frame' = [frame EXCEPT !.err = "readFile"]
  /\ pc' = "done"
  /\ UNCHANGED << fs, pre, out, calls, edits, ext, batch, heap >>

\* fs.remove(externalReliverseFilePath), whatever update returned
MRemove ==
  /\ pc = "m_remove"
  /\ ext' = NoFile
  /\ pc' = "done"
  /\ UNCHANGED << fs, frame, pre, out, faults, calls, edits, batch, heap >>

\* the removal throws: the catch block logs it
MRemoveFail ==
  /\ pc = "m_remove"
  /\ Fault
  /\ pc' = "done"
  /\ UNCHANGED << fs, frame, pre, out, calls, edits, ext, batch, heap >>

(***************************************************************************)
(* The process                                                             *)
(***************************************************************************)
InFlight == pc \notin {"idle", "done", "crashed"}

\* the process dies between two steps of a call
Crash ==
  /\ InFlight
  /\ pc' = "crashed"
  /\ UNCHANGED << fs, frame, pre, out, faults, calls, edits, ext, batch, heap >>

\* the caller has the outcome, or the process is started again; what is left
\* of the external file plays no part in later calls, each migrate being
\* called on an external file written for it
Return ==
  /\ pc \in {"done", "crashed"}
  /\ pc' = "idle"
  /\ frame' = NoFrame
  /\ out' = NoOut
  /\ pre' = fs
  /\ faults' = 0
  /\ ext' = NoFile
  /\ UNCHANGED << fs, calls, edits, batch, heap >>

\* between two calls the user edits the primary file by hand, or deletes it
UserEdit ==
  /\ pc = "idle"
  /\ edits < MaxEdits
  /\ edits' = edits + 1
  /\ \E c \in {NoFile} \cup {File(d) : d \in EditedContents} :
       /\ c # fs.cfg
       /\ fs' = [fs EXCEPT !.cfg = c]
       /\ pre' = fs'
  /\ UNCHANGED << pc, frame, out, faults, calls, ext, batch, heap >>

Next ==
  \/ UserEdit
  \/ CallWrite \/ CallUpdate \/ CallRead \/ CallReRead \/ CallMigrate
  \/ WValidate \/ WBackup \/ WBackupFail \/ WTmp \/ WTmpFail
  \/ WRename \/ WRenameFail \/ WCleanup \/ WCleanupFail
  \/ WCatchRestore \/ WCatchRestoreFail \/ WCatchTmp \/ WCatchTmpFail
  \/ URead \/ UReadFail \/ UBackup \/ UBackupFail \/ UTmp \/ UTmpFail
  \/ URename \/ URenameFail \/ UCleanup \/ UCleanupFail
  \/ UCatchRestore \/ UCatchRestoreFail \/ UCatchTmp \/ UCatchTmpFail
  \/ RParse \/ RParseFail \/ RMerge \/ RBackup \/ RBackupFail
  \/ RRestore \/ RRestoreFail \/ FRead \/ FReadFail
  \/ MRead \/ MReadFail \/ MRemove \/ MRemoveFail
  \/ Crash \/ Return

Spec == Init /\ [][Next]_vars

(***************************************************************************)
(* updateReliverseConfig on its own, on primary files that hold a rule of  *)
(* the user: one that validates and one with a field of the wrong type     *)
(***************************************************************************)
DocOwnRule == Put(DocA, "customRules", Obj(<< KV("rule", Str("x")) >>))

TextOwnRule == Serialize(DocOwnRule)

TextOwnRuleWrongType == Stringify(Put(DocOwnRule, "projectLicense", Num("5")), 0, "")

UpdatedContents == { Serialize(DocA), TextOwnRule, TextOwnRuleWrongType }

InitUpdate ==
  /\ batch = NoBatch
  /\ heap = DefaultHeap
  /\ fs \in [cfg : {NoFile} \cup {File(d) : d \in UpdatedContents},
             backup : {NoFile},
             tmp : {NoFile}]
  /\ pc = "idle"
  /\ frame = NoFrame
  /\ pre = fs
  /\ out = NoOut
  /\ faults = 0
  /\ calls = 0
  /\ edits = 0
  /\ ext = NoFile

NextUpdate ==
  \/ UserEdit
  \/ CallUpdate
  \/ URead \/ UReadFail \/ UBackup \/ UBackupFail \/ UTmp \/ UTmpFail
  \/ URename \/ URenameFail \/ UCleanup \/ UCleanupFail
  \/ UCatchRestore \/ UCatchRestoreFail \/ UCatchTmp \/ UCatchTmpFail
  \/ Return

SpecUpdate == InitUpdate /\ [][NextUpdate]_vars

(***************************************************************************)
(* Calls of write and read under fair scheduling: an awaited I/O step of a *)
(* call in flight fulfils or rejects, so that the call takes its next      *)
(* step; the process is not killed, and the user edits the file only       *)
(* between two calls                                                       *)
(***************************************************************************)
\* the awaited step of the call in flight settles and the call goes on to
\* the step after it
IOStep ==
  /\ InFlight
  /\ pc' \in {"w_validate", "w_backup", "w_tmp", "w_rename", "w_cleanup",
              "wc_restore", "wc_tmp", "r_merge", "r_backup", "r_restore",
              "f_read", "done"}

NextFair ==
  \/ UserEdit
  \/ CallWrite \/ CallRead \/ CallReRead
  \/ WValidate \/ WBackup \/ WBackupFail \/ WTmp \/ WTmpFail
  \/ WRename \/ WRenameFail \/ WCleanup \/ WCleanupFail
  \/ WCatchRestore \/ WCatchRestoreFail \/ WCatchTmp \/ WCatchTmpFail
  \/ RParse \/ RParseFail \/ RMerge \/ RBackup \/ RBackupFail
  \/ RRestore \/ RRestoreFail \/ FRead \/ FReadFail
  \/ Return

SpecFair == Init /\ [][NextFair]_vars /\ WF_pc(IOStep)

(***************************************************************************)
(* fixLineByLine, deepMerge and mergeWithDefaults on their own: the        *)
(* candidate documents and merge arguments are drawn from bounded sets and *)
(* the functions applied to them                                           *)
(***************************************************************************)
\* the entry of a document for one key, none when value is Undef
Field(key, value) == IF value.t = "undef" THEN << >> ELSE << KV(key, value) >>

\* values a hand-edited document may hold at each key: absent, valid, of the
\* wrong type, and for a nested object one field wrong next to a valid one
LicenseValues == { Undef, Str("Apache-2.0"), Num("5") }

FeaturesValues ==
  { Undef, Null, Str("all"),
    Obj(<< KV("i18n", Bool("true")), KV("themeMode", Str("dark")) >>),
    Obj(<< KV("i18n", Str("yes")), KV("themeMode", Str("dark")) >>),
    Obj(<< KV("themeMode", Str("dark")) >>) }

CodeStyleValues ==
  { Undef,
    Obj(<< KV("lineWidth", Num("100")),
           KV("modernize", Obj(<< KV("replaceFs", Bool("true")) >>)) >>),
    Obj(<< KV("lineWidth", Num("100")),
           KV("modernize", Obj(<< KV("replaceFs", Str("no")) >>)) >>),
    Obj(<< KV("lineWidth", Num("100")), KV("modernize", Null) >>) }

ReposValues ==
  { Undef, Num("3"),
    Arr(<< Str("a/b") >>),
    Arr(<< Str("https://github.com/a/b") >>),
    Arr(<< Str("git+git+a/b") >>),
    Arr(<< Num("5") >>) }

ExtraValues == { Undef, Str("kept?") }

Candidates ==
  { Obj(<< KV("projectName", Str("app")) >>
        \o Field("projectLicense", license)
        \o Field("unknownKey", extra)
        \o Field("features", features)
        \o Field("codeStyle", codeStyle)
        \o Field("ignoreDependencies", Arr(<< Str("left-pad") >>))
        \o Field("customRules", Obj(<< KV("rule", Str("x")) >>))
        \o Field("customUserFocusedRepos", repos)) :
      license \in LicenseValues, extra \in ExtraValues,
      features \in FeaturesValues, codeStyle \in CodeStyleValues,
      repos \in ReposValues }
  \cup { Str("text"), Arr(<< Str("item") >>), Obj(<< >>) }

\* values at a key of the two arguments of a merge
MergeValues ==
  { Undef, Null, Num("3"), Arr(<< Num("1"), Num("2") >>), Arr(<< Num("9") >>),
    Obj(<< KV("b", Num("1")), KV("c", Num("2")) >>),
    Obj(<< KV("b", Num("5")) >>),
    Obj(<< KV("b", Obj(<< KV("x", Num("1")) >>)), KV("c", Undef) >>),
    Obj(<< KV("b", Obj(<< KV("y", Num("2")) >>)) >>) }

\* an explicit undefined is an entry of the object, an absent key is not
MergeObjects ==
  { Obj(a \o d) :
      a \in {<< >>} \cup {<< KV("a", v) >> : v \in MergeValues},
      d \in {<< >>} \cup {<< KV("d", v) >> : v \in {Undef, Num("3"), Num("4")}} }

InitPure ==
  /\ batch = NoBatch
  /\ heap = DefaultHeap
  /\ fs = [cfg |-> NoFile, backup |-> NoFile, tmp |-> NoFile]
  /\ pre = fs
  /\ ext = NoFile
  /\ pc = "idle"
  /\ out = NoOut
  /\ faults = 0
  /\ calls = 0
  /\ edits = 0
  /\ \/ \E userConfig \in Candidates :
          frame = [NoFrame EXCEPT !.op = "repair", !.arg = userConfig]
     \/ \E target \in MergeObjects, source \in MergeObjects :
          frame = [NoFrame EXCEPT !.op = "merge", !.arg = target, !.wcfg = source]

\* fixLineByLine(userConfig, DEFAULT_CONFIG, reliverseConfigSchema)
Repair ==
  /\ pc = "idle"
  /\ frame.op = "repair"
  /\ out' = [out EXCEPT !.result =
               fixLineByLine(frame.arg, DEFAULT_CONFIG, reliverseConfigSchema)]
  /\ pc' = "repaired"
  /\ UNCHANGED << fs, frame, pre, faults, calls, edits, ext, batch, heap >>

\* fixLineByLine applied to the fixedConfig of the first pass, the result of
\* the first pass kept
RepairAgain ==
  /\ pc = "repaired"
  /\ frame' = [frame EXCEPT !.parsed = out.result]
  /\ out' = [out EXCEPT !.result =
               fixLineByLine(out.result.fixedConfig, DEFAULT_CONFIG,
                             reliverseConfigSchema)]
  /\ pc' = "repairedAgain"
  /\ UNCHANGED << fs, pre, faults, calls, edits, ext, batch, heap >>

\* deepMerge(target, source)
Merge ==
  /\ pc = "idle"
  /\ frame.op = "merge"
  /\ out' = [out EXCEPT !.result = deepMerge(frame.arg, frame.wcfg)]
  /\ pc' = "merged"
  /\ UNCHANGED << fs, frame, pre, faults, calls, edits, ext, batch, heap >>

NextPure == Repair \/ RepairAgain \/ Merge

SpecPure == InitPure /\ [][NextPure]_vars

(***************************************************************************)
(* Concurrent calls.  The steps of the calls interleave: Switch parks the  *)
(* call that ran and takes up another one, writing the files of the first  *)
(* to the disk and reading those of the second from it.                    *)
(***************************************************************************)
Context(pcv, framev, prev, outv, faultsv) ==
  [pc |-> pcv, frame |-> framev, pre |-> prev, out |-> outv, faults |-> faultsv]

NoFiles == [cfg |-> NoFile, backup |-> NoFile, tmp |-> NoFile]

\* the slot of the call that is running
Running == Context("running", NoFrame, NoFiles, NoOut, 0)

Blank(disk, configPath) == Store(disk, configPath, NoFiles)

\* the disk with the files of the running call written to it
FullDisk ==
  IF batch.cur = 0 THEN batch.disk
  ELSE Store(batch.disk, batch.path[batch.cur], fs)

\* the context of worker i, running or parked
Worker(i) ==
  IF i = batch.cur THEN Context(pc, frame, pre, out, faults)
  ELSE batch.parked[i]

Workers == DOMAIN batch.parked

AllDone == \A i \in Workers : Worker(i).pc = "done"

\* a rejected promise rejects Promise.all before any other callback runs
RejectionPending ==
  /\ batch.kind = "readAll"
  /\ batch.status = "running"
  /\ pc = "done"
  /\ out.thrown # "none"

Switch ==
  /\ batch.status \in {"running", "raised"}
  /\ ~RejectionPending
  /\ \E j \in Workers :
       /\ j # batch.cur
       /\ batch.parked[j].pc # "done"
       /\ LET disk == Store(batch.disk, batch.path[batch.cur], fs)
              next == batch.parked[j]
          IN /\ fs' = View(disk, batch.path[j])
             /\ pc' = next.pc
             /\ frame' = next.frame
             /\ pre' = next.pre
             /\ out' = next.out
             /\ faults' = next.faults
             /\ batch' = [batch EXCEPT
                            !.cur = j,
                            !.disk = Blank(disk, batch.path[j]),
                            !.parked = [@ EXCEPT
                                          ![batch.cur] = Context(pc, frame, pre, out, faults),
                                          ![j] = Running]]
  /\ UNCHANGED << calls, edits, ext, heap >>

(***************************************************************************)
(* readReliverseConfigsInReliFolder(cwd)                                   *)
(***************************************************************************)
\* what a candidate file and its siblings hold when the batch starts: a
\* valid document, one with keys missing, one with a field of the wrong
\* type, no JSON at all, and a wrong type next to a valid stale backup
BatchFiles ==
  { [NoFiles EXCEPT !.cfg = File(Serialize(DocA))],
    [NoFiles EXCEPT !.cfg = File(TextMissing)],
    [NoFiles EXCEPT !.cfg = File(TextWrongType)],
    [NoFiles EXCEPT !.cfg = File(TextGarbage)],
    [NoFiles EXCEPT !.cfg = File(TextWrongType), !.backup = File(Serialize(DocB))] }

EmptyDisk == [q \in DiskPaths |-> NoFile]

\* readdir, the filter on the file name, and the start of one
\* readReliverseConfig per file: each runs up to its first await
InitAll ==
  /\ heap = DefaultHeap
  /\ calls = 0
  /\ edits = 0
  /\ ext = NoFile
  /\ \E a \in BatchFiles, b \in BatchFiles \cup {NoFiles} :
       LET disk == [Store(Store(EmptyDisk, ConfigPaths[1], a), ConfigPaths[2], b)
                      EXCEPT ![<< "notes.txt" >>] = File(TextGarbage)]
           dirItems == SelectSeq(DirEntries, LAMBDA item : disk[item].exists)
           reliverseFiles == SelectSeq(dirItems, EndsWithConfigName)
           started == [i \in 1..Len(reliverseFiles) |->
                         Context("r_parse", [NoFrame EXCEPT !.op = "reread"],
                                 View(disk, reliverseFiles[i]), NoOut, 0)]
       IN /\ batch = [NoBatch EXCEPT
                        !.kind = "readAll", !.cur = 1, !.path = reliverseFiles,
                        !.parked = [started EXCEPT ![1] = Running],
                        !.disk = Blank(disk, reliverseFiles[1]),
                        !.start = disk, !.status = "running"]
          /\ fs = View(disk, reliverseFiles[1])
          /\ pre = fs
          /\ pc = "r_parse"
          /\ frame = started[1].frame
          /\ out = NoOut
          /\ faults = 0

\* Promise.all resolves when every call has returned: the configs in the
\* order of the files; readAll returns those that are not null
Settle ==
  /\ batch.kind = "readAll"
  /\ batch.status = "running"
  /\ AllDone
  /\ \A i \in Workers : Worker(i).out.thrown = "none"
  /\ batch' = [batch EXCEPT !.status = "returned",
                            !.configs = [i \in Workers |-> Worker(i).out.result]]
  /\ UNCHANGED << fs, pc, frame, pre, out, faults, calls, edits, ext, heap >>

\* a call raised: Promise.all rejects and readAll raises, while the other
\* calls go on
Reject ==
  /\ RejectionPending
  /\ batch' = [batch EXCEPT !.status = "raised", !.error = out.thrown]
  /\ UNCHANGED << fs, pc, frame, pre, out, faults, calls, edits, ext, heap >>

\* configs.filter((cfg) => cfg !== null)
readAllResult == SelectSeq(batch.configs, LAMBDA cfg : cfg # Null)

\* the primary file of a call exists throughout the batch, so the restoring
\* copy of writeReliverseConfig is never reached
NextAll ==
  \/ Switch \/ Settle \/ Reject
  \/ RParse \/ RParseFail \/ RMerge \/ RBackup \/ RBackupFail
  \/ RRestore \/ RRestoreFail \/ FRead \/ FReadFail
  \/ WValidate \/ WBackup \/ WBackupFail \/ WTmp \/ WTmpFail
  \/ WRename \/ WRenameFail \/ WCleanup \/ WCleanupFail
  \/ WCatchRestore \/ WCatchTmp \/ WCatchTmpFail

SpecAll == InitAll /\ [][NextAll]_vars

(***************************************************************************)
(* Two processes that call writeReliverseConfig on one path.  Between      *)
(* processes fs.writeFile is not one step: it opens the file, creating or  *)
(* truncating it, and then writes into the file it opened, wherever a      *)
(* rename has moved that file since.                                       *)
(***************************************************************************)
\* bytes written at the start of a file that holds old already
Overlay(new, old) == new \o SubSeq(old, Len(new) + 1, Len(old))

\* writeFile(tempPath, fileContent): the open
WTmpOpen ==
  /\ pc = "w_tmp"
  /\ fs' = [fs EXCEPT !.tmp = File(<< >>)]
  /\ pc' = "w_write"
  /\ UNCHANGED << frame, pre, out, faults, calls, edits, ext, batch, heap >>

\* writeFile(tempPath, fileContent): the write; the file opened is found at
\* tempPath or, renamed by the other process, at configPath
WTmpWrite ==
  /\ pc = "w_write"
  /\ LET fileContent == Serialize(frame.wcfg)
     IN fs' = IF fs.tmp.exists
              THEN [fs EXCEPT !.tmp = File(Overlay(fileContent, fs.tmp.data))]
              ELSE [fs EXCEPT !.cfg = File(Overlay(fileContent, fs.cfg.data))]
  /\ pc' = "w_rename"
  /\ UNCHANGED << frame, pre, out, faults, calls, edits, ext, batch, heap >>

\* the path both processes write, and the document of each
RacePath == ConfigPaths[1]

RaceDocs == << DocA, DocB >>

InitRace ==
  /\ heap = DefaultHeap
  /\ calls = 0
  /\ edits = 0
  /\ ext = NoFile
  /\ \E before \in {NoFile, File(Serialize(DEFAULT_CONFIG))} :
       LET disk == [EmptyDisk EXCEPT ![RacePath] = before]
           started == [i \in 1..Len(RaceDocs) |->
                         Context("w_validate",
                                 [NoFrame EXCEPT !.op = "write", !.arg = RaceDocs[i],
                                                 !.wcfg = RaceDocs[i]],
                                 View(disk, RacePath), NoOut, 0)]
       IN /\ batch = [NoBatch EXCEPT
                        !.kind = "race", !.cur = 1,
                        !.path = [i \in 1..Len(RaceDocs) |-> RacePath],
                        !.parked = [started EXCEPT ![1] = Running],
                        !.disk = Blank(disk, RacePath),
                        !.start = disk, !.status = "running"]
          /\ fs = View(disk, RacePath)
          /\ pre = fs
          /\ pc = "w_validate"
          /\ frame = started[1].frame
          /\ out = NoOut
          /\ faults = 0

NextRace ==
  \/ Switch
  \/ WValidate \/ WBackup \/ WTmpOpen \/ WTmpWrite \/ WRename \/ WCleanup
  \/ WCatchRestore \/ WCatchTmp

SpecRace == InitRace /\ [][NextRace]_vars

(***************************************************************************)
(* getDefaultReliverseConfig(cwd), generateDefaultRulesForProject(cwd) and *)
(* the copy fixLineByLine starts from, on the heap                         *)
(***************************************************************************)
\* what the project directory gives: the detected framework, the name and
\* license of package.json, the line width of the biome config, and
\* whether a database schema is found
ProjectInputs ==
  { Obj(<< KV("projectCategory", category), KV("name", name),
           KV("license", license), KV("lineWidth", lineWidth),
           KV("hasDatabase", hasDatabase) >>) :
      category \in {Null, Str("nextjs"), Str("vite")},
      name \in {Undef, Str("app")},
      license \in {Undef, Str("Apache-2.0")},
      lineWidth \in {Undef, Num("100")},
      hasDatabase \in {Bool("true"), Bool("false")} }

InitDefaults ==
  /\ heap = DefaultHeap
  /\ batch = NoBatch
  /\ fs = NoFiles
  /\ pre = fs
  /\ ext = NoFile
  /\ pc = "idle"
  /\ frame = NoFrame
  /\ out = NoOut
  /\ faults = 0
  /\ calls = 0
  /\ edits = 0

\* a call starts; the objects of the call before are garbage
CallOnDefaults ==
  /\ pc = "idle"
  /\ calls < MaxCalls
  /\ calls' = calls + 1
  /\ \E operation \in {"getDefault", "generateRules", "fixLineByLine"},
        inputs \in ProjectInputs :
       frame' = [NoFrame EXCEPT !.op = operation, !.arg = inputs]
  /\ heap' = [addr \in DOMAIN heap |->
                IF addr \in AllocatedAddresses THEN Undef ELSE heap[addr]]
  /\ pc' = IF frame'.op = "fixLineByLine" THEN "g_copy" ELSE "g_default"
  /\ UNCHANGED << fs, pre, out, faults, edits, ext, batch >>

\* return { ...DEFAULT_CONFIG, projectName, projectLicense,
\*          codeStyle: { ...DEFAULT_CONFIG.codeStyle, lineWidth } }
GetDefault ==
  /\ pc = "g_default"
  /\ LET codeStyle ==
           Put(heap["DEFAULT_CONFIG.codeStyle"], "lineWidth",
               Coalesce(Get(frame.arg, "lineWidth"), Num("80")))
         config ==
           Put(Put(Put(heap["DEFAULT_CONFIG"],
                       "projectName",
                       Coalesce(Get(frame.arg, "name"), Str(UNKNOWN_VALUE))),
                   "projectLicense",
                   Coalesce(Get(frame.arg, "license"), Str("MIT"))),
               "codeStyle", Ref("rules.codeStyle"))
     IN heap' = [heap EXCEPT !["rules.codeStyle"] = codeStyle, !["rules"] = config]
  /\ IF frame.op = "generateRules"
     THEN pc' = "g_rules" /\ UNCHANGED out
     ELSE pc' = "done" /\ out' = [out EXCEPT !.result = Ref("rules")]
  /\ UNCHANGED << fs, frame, pre, faults, calls, edits, ext, batch >>

\* generateDefaultRulesForProject after getDefaultReliverseConfig: with no
\* framework detected rules gets new features and preferredLibraries
\* objects; with one, rules.features is a new object, and database and
\* authentication are assigned into the object rules.preferredLibraries
\* refers to
GenerateRules ==
  /\ pc = "g_rules"
  /\ LET projectCategory == Get(frame.arg, "projectCategory")
         rules == heap["rules"]
         libraries == Get(rules, "preferredLibraries")
         noCategory ==
           [heap EXCEPT
              !["rules.features"] =
                 Put(Put(heap["DEFAULT_CONFIG.features"],
                         "language", Arr(<< Str("typescript") >>)),
                     "themes", Arr(<< Str("default") >>)),
              !["rules.preferredLibraries"] =
                 Put(Put(heap["DEFAULT_CONFIG.preferredLibraries"],
                         "database", Str("drizzle")),
                     "authentication", Str("clerk")),
              !["rules"] =
                 Put(Put(rules, "features", Ref("rules.features")),
                     "preferredLibraries", Ref("rules.preferredLibraries"))]
         withFeatures ==
           [heap EXCEPT
              !["rules.features"] =
                 Put(Put(Put(Put(heap[Get(rules, "features").v],
                                 "database", Get(frame.arg, "hasDatabase")),
                             "themeMode", Str("dark-light")),
                         "language", Arr(<< Str("typescript") >>)),
                     "themes", Arr(<< Str("default") >>)),
              !["rules"] = Put(rules, "features", Ref("rules.features"))]
         withLibraries ==
           IF libraries.t = "ref" THEN withFeatures
           ELSE [withFeatures EXCEPT
                   !["rules.preferredLibraries"] = Obj(<< >>),
                   !["rules"] = Put(@, "preferredLibraries",
                                    Ref("rules.preferredLibraries"))]
         target == Get(withLibraries["rules"], "preferredLibraries").v
         nextjs == Coalesce(projectCategory, Str("nextjs")) = Str("nextjs")
         assigned ==
           [withLibraries EXCEPT
              ![target] =
                 Put(Put(@, "database",
                         IF nextjs THEN Str("prisma") ELSE Str("drizzle")),
                     "authentication",
                     IF nextjs THEN Str("next-auth") ELSE Str("clerk"))]
     IN heap' = IF projectCategory = Null THEN noCategory ELSE assigned
  /\ out' = [out EXCEPT !.result = Ref("rules")]
  /\ pc' = "done"
  /\ UNCHANGED << fs, frame, pre, faults, calls, edits, ext, batch >>

\* const result = { ...defaultConfig }: the copy fixLineByLine fills; a key
\* the candidate lacks keeps the default's value, a nested object by
\* reference
FixCopy ==
  /\ pc = "g_copy"
  /\ heap' = [heap EXCEPT !["result"] = heap["DEFAULT_CONFIG"]]
  /\ out' = [out EXCEPT !.result = Ref("result")]
  /\ pc' = "done"
  /\ UNCHANGED << fs, frame, pre, faults, calls, edits, ext, batch >>

NextDefaults ==
  \/ CallOnDefaults
  \/ GetDefault \/ GenerateRules \/ FixCopy
  \/ Return

SpecDefaults == InitDefaults /\ [][NextDefaults]_vars

(***************************************************************************)
(* readReliverseConfig as a function of the files, when no I/O fails: the  *)
(* layer that answers and the value returned                               *)
(***************************************************************************)
ReadOutcome(f) ==
  LET parseResult == parseReliverseFile(f.cfg.data)
      merged == mergeWithDefaults(parseResult.parsed)
      backupResult == parseReliverseFile(f.backup.data)
  IN IF ~f.cfg.exists \/ ~parseResult.ok
     THEN [layer |-> "giveup", result |-> Null]
     ELSE IF ~parseResult.errors
     THEN [layer |-> "accept", result |-> parseResult.parsed]
     ELSE IF Check(reliverseConfigSchema, merged)
     THEN [layer |-> "merge", result |-> merged]
     ELSE IF f.backup.exists /\ backupResult.ok /\ ~backupResult.errors
     THEN [layer |-> "backup", result |-> backupResult.parsed]
     ELSE [layer |-> "giveup", result |-> Null]

\* the step-by-step read returns what ReadOutcome says, when nothing fails
ReadAgrees ==
  (pc = "done" /\ frame.op = "read" /\ faults = 0)
    => /\ out.layer = ReadOutcome(pre).layer
       /\ DeepEqual(out.result, ReadOutcome(pre).result)

\* the primary file holds a document that validates
ValidPrimary(f) ==
  /\ f.cfg.exists
  /\ parseReliverseFile(f.cfg.data).ok
  /\ ~parseReliverseFile(f.cfg.data).errors

Finished == pc = "done"

Crashed == pc = "crashed"

\* a write call that stopped on its way to the rename
CrashedBeforeRename ==
  /\ Crashed
  /\ frame.op = "write"
  /\ frame.err = "none"
  /\ ~out.committed

\* no temp file together with a missing primary file
AtMostOne(f) == ~(f.tmp.exists /\ ~f.cfg.exists)

(***************************************************************************)
(* Claims                                                                  *)
(***************************************************************************)

C2_AtMostOneAtRest ==
  (pc \in {"idle", "done", "crashed"}) => AtMostOne(fs)

\* C2 (amended): when a call started in a state where at most one of the two
\* held, at most one holds in the rest state it ends in if the primary file
\* existed when the call started (a crash at any step and a failed call
\* included) or if the call finished without raising.
C2_AtMostOneKept ==
  (/\ pc \in {"done", "crashed"}
   /\ AtMostOne(pre)
   /\ pre.cfg.exists \/ (Finished /\ out.thrown = "none"))
    => AtMostOne(fs)

\* C2 witness: a call crashed with path.tmp written next to the primary file.
C2_Witness ==
  /\ Crashed
  /\ pre.cfg.exists
  /\ ~pre.tmp.exists
  /\ fs.tmp.exists

\* C3: a write of a document that fails validation raises the validation
\* error and leaves path, path.backup and path.tmp as they were.
C3_InvalidWriteTouchesNothing ==
  (Finished /\ frame.op = "write" /\ frame.err = "invalid" /\ faults = 0)
    => /\ fs = pre
       /\ out.thrown = "invalid"

\* C4: with a valid primary file, a write that fails writing path.tmp or at
\* the rename ends with the primary file holding its content from before the
\* write, and the next read returns that document.
C4_FailedWriteKeepsPrimary ==
  (/\ Finished
   /\ frame.op = "write"
   /\ ValidPrimary(pre)
   /\ frame.err \in {"writeFile", "rename"})
    => /\ fs.cfg = pre.cfg
       /\ ReadOutcome(fs).layer = "accept"
       /\ DeepEqual(ReadOutcome(fs).result, parseJSONC(pre.cfg.data))

\* C4 witness: the rename failed over a valid primary file.
C4_Witness ==
  /\ Finished
  /\ frame.op = "write"
  /\ ValidPrimary(pre)
  /\ frame.err = "rename"
  /\ fs.backup.exists

\* C5: a write that fails raises the error of the step that failed first.
C5_RaisesOriginalError ==
  (Finished /\ frame.op = "write" /\ frame.err # "none")
    => out.thrown = frame.err

\* C6: a write of a valid document with no fault, then a read: the read
\* accepts the file as it is, writing nothing, and returns a document
\* deep-equal to the one written, whatever the three files held before.
C6_RoundTrip ==
  (Finished /\ frame.op = "write" /\ out.thrown = "none")
    => /\ ReadOutcome(fs).layer = "accept"
       /\ DeepEqual(ReadOutcome(fs).result, frame.arg)
       /\ DeepEqual(parseJSONC(Serialize(frame.arg)), frame.arg)

\* C6 witness: the document with a section key inside customRules was
\* written over stale path.backup and path.tmp files.
C6_Witness ==
  /\ Finished
  /\ frame.op = "write"
  /\ out.thrown = "none"
  /\ frame.arg = DocB
  /\ pre.backup.exists
  /\ pre.tmp.exists
  /\ Serialize(DocB) # Stringify(DocB, 0, "")

\* C7: after a write that completes without error the primary file holds the
\* serialization of the document and neither path.backup nor path.tmp exists.
C7_SuccessLeavesOnlyPrimary ==
  (Finished /\ frame.op = "write" /\ out.thrown = "none")
    => /\ fs.cfg = File(Serialize(frame.arg))
       /\ ~fs.backup.exists
       /\ ~fs.tmp.exists

\* C7 witness: a write succeeded on a path with no primary file and with
\* stale path.backup and path.tmp files.
C7_Witness ==
  /\ Finished
  /\ frame.op = "write"
  /\ out.thrown = "none"
  /\ ~pre.cfg.exists
  /\ pre.backup.exists
  /\ pre.tmp.exists

\* C8: when a write or update call that failed at some step has finished,
\* the removal of path.tmp has been attempted, and path.tmp does not exist
\* unless that removal itself failed.
C8_TmpRemovalAttempted ==
  (Finished /\ frame.op \in {"write", "update"} /\ frame.err # "none")
    => /\ out.tmpTried
       /\ out.thrown # "removeTmp" => ~fs.tmp.exists

\* C9: once a write or update call has finished, path.backup exists only if
\* the call failed and its restore of the primary file from the backup did
\* not complete.
C9_BackupOnlyAfterFailedRollback ==
  (Finished /\ frame.op \in {"write", "update"} /\ fs.backup.exists)
    => /\ frame.err # "none"
       /\ out.restoreFailed

\* C10: read overwrites the primary file from path.backup only when line by
\* line repair of the parsed content does not yield a valid document.
C10_RepairBeforeRestore ==
  (pc = "r_restore" \/ (Finished /\ out.layer = "backup"))
    => ~Check(reliverseConfigSchema,
              fixLineByLine(frame.parsed, DEFAULT_CONFIG,
                            reliverseConfigSchema).fixedConfig)

\* every document a read or a read-then-repair returns validates
ReturnedValid ==
  (Finished /\ frame.op \in {"read", "reread"} /\ out.result \notin {Undef, Null})
    => Check(reliverseConfigSchema, out.result)

\* right after the rename of a write, an update or a migrate the primary
\* file parses to a document that validates
CommittedValid ==
  (pc \in {"w_cleanup", "u_cleanup"}) => ValidPrimary(fs)

\* C11: every document read or read-then-repair returns validates, every
\* content a write, update or migrate commits parses to a valid document,
\* and no call that meets no I/O fault leaves on the primary path a content
\* it put there that does not parse to a valid document.
C11_OnlyValidDocuments ==
  /\ ReturnedValid
  /\ CommittedValid
  /\ (Finished /\ faults = 0 /\ fs.cfg.exists /\ fs.cfg # pre.cfg)
       => ValidPrimary(fs)

\* C12: with no I/O fault, read and the read-then-repair fallback finish by
\* returning a document or null, never by raising, whatever the primary file
\* and path.backup hold.
C12_ReadNeverRaises ==
  (Finished /\ frame.op \in {"read", "reread"} /\ faults = 0)
    => /\ out.thrown = "none"
       /\ out.result # Undef
       /\ out.result = Null \/ out.result.t = "obj"

\* C12 witness: a read found a primary file that parses but does not
\* validate, also after the merge, and a path.backup that does not validate
\* either, and returned null.
C12_Witness ==
  /\ Finished
  /\ frame.op = "read"
  /\ faults = 0
  /\ parseReliverseFile(pre.cfg.data).errors
  /\ pre.backup.exists
  /\ ~(parseReliverseFile(pre.backup.data).ok
       /\ ~parseReliverseFile(pre.backup.data).errors)
  /\ out.result = Null

\* the value of a schema-declared field at a dotted path of two levels
NestedFields ==
  { << "features", "i18n" >>, << "features", "themeMode" >>,
    << "codeStyle", "lineWidth" >>, << "codeStyle", "modernize" >> }

\* C13: a nested field of the candidate that is present and valid for its
\* own schema keeps the candidate's value in fixedConfig, also when a
\* sibling inside the same nested object is invalid, and a nested field
\* that is invalid is reported by its dotted path.
C13_RepairKeepsValidSiblings ==
  (pc = "repaired" /\ IsObj(frame.arg))
    => \A path \in NestedFields :
         LET parent == Get(frame.arg, path[1])
             value == Get(parent, path[2])
             subSchema == SProp(SProp(reliverseConfigSchema, path[1]), path[2])
             fixedValue == Get(Get(out.result.fixedConfig, path[1]), path[2])
             changed == {out.result.changedKeys[i] :
                           i \in 1..Len(out.result.changedKeys)}
         IN (IsObj(parent) /\ HasKey(parent, path[2]))
              => IF Check(subSchema, value)
                 THEN DeepEqual(fixedValue, value)
                 ELSE (path[1] \o "." \o path[2]) \in changed

\* C14: repairing the fixedConfig of a first repair changes nothing: the
\* second pass reports no changed key and returns a fixedConfig deep-equal
\* to the one it was given.
C14_RepairIdempotent ==
  (pc = "repairedAgain")
    => /\ out.result.changedKeys = << >>
       /\ DeepEqual(out.result.fixedConfig, frame.parsed.fixedConfig)

\* the paths of the schema-declared top-level fields
TopLevelFields == SPropNames(reliverseConfigSchema)

\* C15: a schema-declared field the candidate has is listed in changedKeys
\* exactly when fixedConfig holds another value for it than the candidate.
C15_ChangedKeysExact ==
  (pc = "repaired" /\ IsObj(frame.arg))
    => \A key \in TopLevelFields :
         HasKey(frame.arg, key)
           => (key \in {out.result.changedKeys[i] :
                          i \in 1..Len(out.result.changedKeys)}
               <=> ~DeepEqual(Get(out.result.fixedConfig, key), Get(frame.arg, key)))

\* C16: after a repair that walks the candidate field by field, fixedConfig
\* has the keys of the default and no other: a key of the candidate the
\* schema does not declare is gone, a declared key the candidate lacks holds
\* the default's value.
C16_RepairKeySet ==
  (pc = "repaired" /\ IsJsObject(frame.arg))
    => LET candidate == SpreadSource(frame.arg)
           fixedConfig == out.result.fixedConfig
       IN /\ KeySet(fixedConfig) = KeySet(DEFAULT_CONFIG)
          /\ \A key \in KeySet(candidate) \ TopLevelFields :
               ~HasKey(fixedConfig, key)
          /\ \A key \in TopLevelFields \ KeySet(candidate) :
               DeepEqual(Get(fixedConfig, key), Get(DEFAULT_CONFIG, key))

\* C16 witness: the candidate had a key the schema does not declare and
\* lacked a declared one.
C16_Witness ==
  /\ pc = "repaired"
  /\ IsObj(frame.arg)
  /\ HasKey(frame.arg, "unknownKey")
  /\ ~HasKey(frame.arg, "projectLicense")
  /\ HasKey(frame.arg, "features")

\* the Deep Merger as specified: a key of override with a defined value holds
\* the recursive merge when both values are non-array objects and the
\* override value otherwise; every other key keeps the base value
RECURSIVE ReferenceMerge(_, _)
ReferenceMerge(base, override) ==
  LET defined(key) == Get(override, key).t # "undef"
      added == SelectSeq(Keys(override),
                         LAMBDA key : defined(key) /\ ~HasKey(base, key))
      keys == Keys(base) \o added
      value(key) ==
        IF ~defined(key) THEN Get(base, key)
        ELSE IF IsPlainObject(Get(base, key)) /\ IsPlainObject(Get(override, key))
        THEN ReferenceMerge(Get(base, key), Get(override, key))
        ELSE Get(override, key)
  IN Obj([i \in 1..Len(keys) |-> KV(keys[i], value(keys[i]))])

\* C17: deepMerge(target, source) equals the reference merge: it keeps every key of target that source
\* lacks or holds undefined, holds the recursive merge at a key where both
\* values are non-null, non-array objects, and the value of source at every
\* other key source defines; the result has no other key; and
\* deepMerge({a:{b:1,c:2},d:3}, {a:{b:5}}) = {a:{b:5,c:2},d:3}.
C17_DeepMergeReference ==
  (pc = "merged")
    => LET target == frame.arg
           source == frame.wcfg
           result == out.result
           defined == {key \in KeySet(source) : Get(source, key).t # "undef"}
       IN /\ DeepEqual(result, ReferenceMerge(target, source))
          /\ KeySet(result) = KeySet(target) \cup defined
          /\ \A key \in KeySet(target) \ defined :
               Get(result, key) = Get(target, key)
          /\ \A key \in defined :
               IF IsPlainObject(Get(source, key)) /\ IsPlainObject(Get(target, key))
               THEN DeepEqual(Get(result, key),
                              ReferenceMerge(Get(target, key), Get(source, key)))
               ELSE Get(result, key) = Get(source, key)
          /\ (/\ target = Obj(<< KV("a", Obj(<< KV("b", Num("1")), KV("c", Num("2")) >>)),
                                 KV("d", Num("3")) >>)
              /\ source = Obj(<< KV("a", Obj(<< KV("b", Num("5")) >>)) >>))
               => result = Obj(<< KV("a", Obj(<< KV("b", Num("5")), KV("c", Num("2")) >>)),
                                  KV("d", Num("3")) >>)

\* C17 witness: the merge of the example, {a:{b:1,c:2},d:3} with {a:{b:5}}.
C17_Witness ==
  /\ pc = "merged"
  /\ frame.arg = Obj(<< KV("a", Obj(<< KV("b", Num("1")), KV("c", Num("2")) >>)),
                        KV("d", Num("3")) >>)
  /\ frame.wcfg = Obj(<< KV("a", Obj(<< KV("b", Num("5")) >>)) >>)

\* C18: the document the merge-defaults step of read validates, persists
\* and returns is the deep merge of the parsed content into the default
\* document.
C18_MergeDefaultsIsDeepMerge ==
  (Finished /\ frame.op \in {"read", "reread"} /\ out.layer = "merge")
    => DeepEqual(out.result, ReferenceMerge(DEFAULT_CONFIG, frame.parsed))

\* C19: when migrate finishes and its write of the merged document was not
\* committed, the external file still exists.
C19_ExternalKeptUnlessWritten ==
  (Finished /\ frame.op = "migrate" /\ ~out.committed) => ext.exists

\* the external document restricted to the allow-list, as a document
RestrictedExternal(external) ==
  LET keys == SelectSeq(keysToMigrate,
                        LAMBDA key : Get(external, key).t # "undef")
  IN Obj([i \in 1..Len(keys) |-> KV(keys[i], Get(external, keys[i]))])

\* C20: after a migrate whose update returned true, the primary file holds
\* the deep merge of the previous document and the allow-listed fields of
\* the external document: an allow-listed key the external document defines
\* holds the external value (merged into the previous value when both are
\* objects), and a key of the external document outside the allow-list
\* leaves the document as it was at that key.
C20_MigrateAllowList ==
  (Finished /\ frame.op = "migrate" /\ out.result = Bool("true"))
    => LET previous == IF ValidPrimary(pre) THEN parseJSONC(pre.cfg.data)
                       ELSE Obj(<< >>)
           external == SpreadSource(frame.parsed)
           allowed == {keysToMigrate[i] : i \in 1..Len(keysToMigrate)}
           now == parseJSONC(fs.cfg.data)
       IN /\ DeepEqual(now, ReferenceMerge(previous, RestrictedExternal(external)))
          /\ \A key \in allowed \cap KeySet(external) :
               IF IsPlainObject(Get(external, key)) /\ IsPlainObject(Get(previous, key))
               THEN DeepEqual(Get(now, key),
                              ReferenceMerge(Get(previous, key), Get(external, key)))
               ELSE DeepEqual(Get(now, key), Get(external, key))
          /\ \A key \in KeySet(external) \ allowed :
               DeepEqual(Get(now, key), Get(previous, key))

\* C20 witness: a migrate succeeded from an external document that has an
\* allow-listed key, an unknown key and a schema key outside the allow-list.
C20_Witness ==
  /\ Finished
  /\ frame.op = "migrate"
  /\ out.result = Bool("true")
  /\ frame.parsed = ExtMixed
  /\ Get(parseJSONC(pre.cfg.data), "projectLicense") # Str("GPL-3.0")
  /\ Get(parseJSONC(fs.cfg.data), "projectLicense") = Str("GPL-3.0")

(***************************************************************************)
(* writeReliverseConfig as a relation between the files before and after   *)
(* the call: the files it can leave, given the step that failed first and  *)
(* whether the restoring copy and the removal of path.tmp failed           *)
(***************************************************************************)
\* the files when the first failing step has thrown
AfterFailedStep(p, doc, err) ==
  LET backedUp == IF p.cfg.exists THEN [p EXCEPT !.backup = p.cfg] ELSE p
  IN CASE err = "copy" ->
            {[p EXCEPT !.backup = b] : b \in PartialOutcomes(p.backup, p.cfg.data)}
       [] err = "writeFile" ->
            {[backedUp EXCEPT !.tmp = t] :
               t \in PartialOutcomes(backedUp.tmp, Serialize(doc))}
       [] err = "rename" -> {[backedUp EXCEPT !.tmp = File(Serialize(doc))]}
       [] err = "removeBackup" ->
            {[backedUp EXCEPT !.cfg = File(Serialize(doc)), !.tmp = NoFile]}
       [] OTHER -> {p}

\* the catch block of writeReliverseConfig: a restoring copy that throws ends
\* the call there, path.tmp still in place
WriteRollback(f, restoreFailed, tmpFailed) ==
  LET restoring == f.backup.exists /\ ~f.cfg.exists
      restored == IF restoring THEN [f EXCEPT !.cfg = f.backup] ELSE f
  IN IF restoring /\ restoreFailed
     THEN {[f EXCEPT !.cfg = c] : c \in PartialOutcomes(f.cfg, f.backup.data)}
     ELSE IF tmpFailed THEN {restored}
     ELSE {[restored EXCEPT !.tmp = NoFile]}

WriteEffect(p, doc, err, restoreFailed, tmpFailed) ==
  IF err = "none"
  THEN {[cfg |-> File(Serialize(doc)), backup |-> NoFile, tmp |-> NoFile]}
  ELSE UNION {WriteRollback(f, restoreFailed, tmpFailed) :
                f \in AfterFailedStep(p, doc, err)}

\* the removal of path.tmp in the catch block was reached and threw
TmpRemovalFailed == out.tmpTried /\ fs.tmp.exists

\* the step-by-step write leaves files WriteEffect allows
WriteAgrees ==
  (Finished /\ frame.op = "write")
    => fs \in WriteEffect(pre, frame.arg, frame.err, out.restoreFailed,
                          TmpRemovalFailed)

\* C21: the persistence of update and migrate leaves path, path.backup and
\* path.tmp as write would leave them from the same files, for the same
\* document and the same failing steps (a failing restore copy included),
\* and reports a failure exactly when write raises.
C21_UpdatePersistsAsWrite ==
  (Finished /\ frame.op \in {"update", "migrate"} /\ frame.wcfg # Undef
   /\ frame.err # "readFile")
    => /\ fs \in WriteEffect(pre, frame.wcfg, frame.err, out.restoreFailed,
                             TmpRemovalFailed)
       /\ (frame.err # "none") <=> (out.result # Bool("true"))

(***************************************************************************)
(* readReliverseConfig followed by parseAndFixConfig as a function of the  *)
(* files, when no I/O fails: the document returned and the files left      *)
(***************************************************************************)
RereadOutcome(f) ==
  LET first == ReadOutcome(f)
      parsed == parseJSONC(f.cfg.data)
      fixed == fixLineByLine(parsed, DEFAULT_CONFIG, reliverseConfigSchema).fixedConfig
      written(doc) == [cfg |-> File(Serialize(doc)), backup |-> NoFile, tmp |-> NoFile]
  IN CASE first.layer = "accept" -> [result |-> first.result, files |-> f]
       [] first.layer = "merge" -> [result |-> first.result, files |-> written(first.result)]
       [] first.layer = "backup" ->
            [result |-> first.result, files |-> [f EXCEPT !.cfg = f.backup]]
       [] OTHER ->
            IF ~f.cfg.exists \/ ~IsJsObject(parsed)
            THEN [result |-> Null, files |-> f]
            ELSE IF Check(reliverseConfigSchema, parsed)
            THEN [result |-> parsed, files |-> f]
            ELSE IF Check(reliverseConfigSchema, fixed)
            THEN [result |-> fixed, files |-> written(fixed)]
            ELSE [result |-> Null, files |-> f]

\* the batch returned, and for every file whose own call met no I/O fault the
\* config is the one its content gives, a valid document or null
BatchReturnsEach ==
  batch.status = "returned"
    => \A i \in Workers :
         Worker(i).faults = 0
           => /\ DeepEqual(batch.configs[i], RereadOutcome(Worker(i).pre).result)
              /\ batch.configs[i] # Null
                   => Check(reliverseConfigSchema, batch.configs[i])

\* C22: readAll never raises, whatever the files hold and whichever step of
\* a file's call fails (the persisting of its merged or repaired document
\* included); it returns one valid document for each file that is valid or
\* recoverable, none for the others, and the document returned for a file
\* does not depend on a failure met on another file.
C22_BatchNeverAborts ==
  /\ batch.status # "raised"
  /\ BatchReturnsEach

\* the paths a call on configPath reads or writes
PathsOf(configPath) ==
  {configPath, backupPathOf(configPath), tempPathOf(configPath)}

\* the files of the batch processed one after another, with no I/O fault:
\* the disk and the configs after the first n files
RECURSIVE OneAfterAnother(_)
OneAfterAnother(n) ==
  IF n = 0 THEN [disk |-> batch.start, configs |-> << >>]
  ELSE LET before == OneAfterAnother(n - 1)
           outcome == RereadOutcome(View(before.disk, batch.path[n]))
       IN [disk |-> Store(before.disk, batch.path[n], outcome.files),
           configs |-> Append(before.configs, outcome.result)]

\* C23: the calls of a batch work on pairwise disjoint paths, no path.backup
\* or path.tmp of a candidate being a candidate itself, and when no I/O
\* fails every interleaving of their steps ends with the configs and with
\* the content of every file that processing the files one after another
\* gives.
C23_BatchAsOneAfterAnother ==
  (batch.kind = "readAll")
    => /\ \A i, j \in Workers : i # j => PathsOf(batch.path[i]) \cap PathsOf(batch.path[j]) = {}
       /\ \A i \in Workers :
            /\ ~EndsWithConfigName(backupPathOf(batch.path[i]))
            /\ ~EndsWithConfigName(tempPathOf(batch.path[i]))
       /\ (batch.status = "returned" /\ \A i \in Workers : Worker(i).faults = 0)
            => /\ FullDisk = OneAfterAnother(Len(batch.path)).disk
               /\ \A i \in Workers :
                    DeepEqual(batch.configs[i],
                              OneAfterAnother(Len(batch.path)).configs[i])

\* C23 witness: a batch of two files returned, both calls having written
\* their file, one the merged and one the repaired document.
C23_Witness ==
  /\ batch.kind = "readAll"
  /\ batch.status = "returned"
  /\ Len(batch.path) = 2
  /\ \A i \in Workers :
       /\ Worker(i).faults = 0
       /\ Worker(i).out.committed
  /\ {Worker(i).out.layer : i \in Workers} = {"merge", "repair"}

\* the primary file of the two processes holds what it held before the
\* writes or the whole serialization of one of the two documents
PrimaryComplete ==
  FullDisk[RacePath] \in
    {batch.start[RacePath]} \cup
    {File(Serialize(RaceDocs[i])) : i \in 1..Len(RaceDocs)}

\* both calls over, the primary file holds the document of the process whose
\* rename was the last to go through
LastRenameWins ==
  (AllDone /\ batch.renames # << >>)
    => FullDisk[RacePath] =
         File(Serialize(RaceDocs[batch.renames[Len(batch.renames)]]))

\* C24: two processes write documents A and B to one path at once, sharing
\* path.tmp and path.backup: in every state the primary file holds its
\* content from before, A or B, whole, and when both calls are over it holds
\* the document of the write whose rename came last.
C24_RaceLastRenameWins ==
  (batch.kind = "race") => (PrimaryComplete /\ LastRenameWins)

\* C25: DEFAULT_CONFIG is immutable at runtime: after any sequence of calls
\* of default-config generation, default-rule generation and repair the
\* object graph of DEFAULT_CONFIG holds the values it was created with, no
\* object shared with a derived document having been assigned into.
C25_DefaultsImmutable ==
  Reify(heap, Ref("DEFAULT_CONFIG")) = Reify(DefaultHeap, Ref("DEFAULT_CONFIG"))

\* the document a caller builds with the same keys and values, inserted in
\* the opposite order
ReverseKeys(config) ==
  Obj([i \in 1..Len(config.v) |-> config.v[Len(config.v) + 1 - i]])

\* C26: serialization has a stable key order: once write has put a document
\* in place, the valid document that is deep-equal to it but has its keys
\* inserted in another order is written as the same file content.
C26_StableKeyOrder ==
  (pc = "done" /\ frame.op = "write" /\ out.committed
     /\ fs.cfg = File(Serialize(frame.arg)))
    => LET other == ReverseKeys(frame.arg)
       IN (DeepEqual(other, frame.arg) /\ Check(reliverseConfigSchema, other))
            => Serialize(other) = fs.cfg.data

\* the place of a step in a call: the parse of the primary file, the merge,
\* the backup layer and its restore, the repair, then the steps of the write
\* and of its rollback, in the order of the code
StepRank(step) ==
  CASE step = "idle" -> 0
    [] step = "r_parse" -> 1
    [] step = "r_merge" -> 2
    [] step = "r_backup" -> 3
    [] step = "r_restore" -> 4
    [] step = "f_read" -> 5
    [] step = "w_validate" -> 6
    [] step = "w_backup" -> 7
    [] step = "w_tmp" -> 8
    [] step = "w_rename" -> 9
    [] step = "w_cleanup" -> 10
    [] step = "wc_restore" -> 11
    [] step = "wc_tmp" -> 12
    [] step = "done" -> 13

\* every call in flight ends, by returning or by raising
EveryCallEnds == InFlight ~> (pc = "done")

\* every step of a call goes forward in the order of the code: no step and
\* no recovery layer is taken twice
NoRetryLoop ==
  [][\/ pc = "done" /\ pc' = "idle"
     \/ pc = "idle" /\ pc' = "idle"
     \/ StepRank(pc') > StepRank(pc)]_vars

\* a read that has ended has returned, a document or null
EveryReadReturns ==
  [](pc = "done" /\ frame.op \in {"read", "reread"} => out.thrown = "none")

\* C27: under fair scheduling of the I/O steps every write in flight ends,
\* returning or raising, every read (with its repair fallback) ends by
\* returning a document or null, and no step or recovery layer of a call is
\* taken twice: there is no retry loop.
C27_CallsEnd == EveryCallEnds /\ NoRetryLoop /\ EveryReadReturns

\* the cases in which read has nothing to mend: the primary file is missing,
\* empty, an empty object, no JSON at all, or a document that validates
PrimaryMissing(f) == ~f.cfg.exists

PrimaryEmpty(f) ==
  f.cfg.exists /\ TrimText(f.cfg.data) \in { << >>, << Line(0, "", "{}", "") >> }

PrimaryUnparsable(f) ==
  /\ f.cfg.exists
  /\ ~PrimaryEmpty(f)
  /\ parseJSONC(TrimText(f.cfg.data)) = Undef

PrimaryValid(f) ==
  /\ f.cfg.exists
  /\ ~PrimaryEmpty(f)
  /\ Check(reliverseConfigSchema, parseJSONC(TrimText(f.cfg.data)))

\* C28: read changes nothing on disk unless the parsed content is a
\* schema-invalid object: on a primary file that is missing, empty or {},
\* unparsable, or valid, a finished read has left path, path.backup and
\* path.tmp as they were and has not raised; when reading the file did not
\* fail it has returned null in the first three cases and the parsed
\* document itself, not merged with the defaults, in the last.
C28_ReadLeavesDisk ==
  (pc = "done" /\ frame.op = "read")
    => /\ (PrimaryMissing(pre) \/ PrimaryEmpty(pre) \/ PrimaryUnparsable(pre))
            => fs = pre /\ out.thrown = "none" /\ out.result = Null
       /\ PrimaryValid(pre)
            => /\ fs = pre
               /\ out.thrown = "none"
               /\ faults = 0 => out.result = parseJSONC(TrimText(pre.cfg.data))
               /\ faults > 0 => out.result = Null

\* a read of a valid primary file next to a stale backup has returned the
\* document and left both files
C28_Witness ==
  /\ pc = "done"
  /\ frame.op = "read"
  /\ PrimaryValid(pre)
  /\ pre.backup.exists
  /\ out.result = parseJSONC(TrimText(pre.cfg.data))

\* the primary file holds an object that does not validate and that the
\* merge with the defaults does not make valid: read turns to the backup
PrimaryBeyondMerge(f) ==
  /\ f.cfg.exists
  /\ ~PrimaryEmpty(f)
  /\ LET parsed == parseJSONC(TrimText(f.cfg.data))
     IN /\ parsed.t \in {"obj", "arr"}
        /\ ~Check(reliverseConfigSchema, parsed)
        /\ ~Check(reliverseConfigSchema, mergeWithDefaults(parsed))

\* path.backup parses and validates
BackupValid(f) ==
  /\ f.backup.exists
  /\ TrimText(f.backup.data) \notin { << >>, << Line(0, "", "{}", "") >> }
  /\ Check(reliverseConfigSchema, parseJSONC(TrimText(f.backup.data)))

\* C29: the backup layer of read adopts the backup only when it parses and
\* validates: then, no I/O step failing, the primary file holds the exact
\* content of path.backup, path.backup is as it was, and the parsed backup
\* is returned; with path.backup missing, unparsable or invalid, read
\* returns null and leaves the primary file and path.backup unchanged.
C29_BackupAdoptedOnlyIfValid ==
  (pc = "done" /\ frame.op = "read" /\ PrimaryBeyondMerge(pre))
    => /\ (BackupValid(pre) /\ faults = 0)
            => /\ fs.cfg = pre.backup
               /\ fs.backup = pre.backup
               /\ out.result = parseJSONC(TrimText(pre.backup.data))
               /\ out.thrown = "none"
       /\ ~BackupValid(pre)
            => /\ out.result = Null
               /\ out.thrown = "none"
               /\ fs.cfg = pre.cfg
               /\ fs.backup = pre.backup
       /\ out.layer = "backup" => BackupValid(pre)

\* a read of an invalid primary file has adopted a valid backup of another
\* content
C29_Witness ==
  /\ pc = "done"
  /\ frame.op = "read"
  /\ PrimaryBeyondMerge(pre)
  /\ BackupValid(pre)
  /\ pre.cfg # pre.backup
  /\ fs.cfg = pre.backup
  /\ out.layer = "backup"

\* C30: the atomic case of repair: for a candidate that is not an object (a
\* scalar, null, or an array where the schema is an object node) repair
\* returns the candidate unchanged with no changed key if it validates, and
\* otherwise the default with changedKeys exactly ["<entire_object>"].
C30_AtomicRepair ==
  (pc = "repaired" /\ frame.op = "repair" /\ frame.arg.t # "obj")
    => IF Check(reliverseConfigSchema, frame.arg)
       THEN out.result = [fixedConfig |-> frame.arg, changedKeys |-> << >>]
       ELSE out.result = [fixedConfig |-> DEFAULT_CONFIG,
                          changedKeys |-> << "<entire_object>" >>]

\* every field of prev at a path that updates does not hold has the same
\* value in now; a path runs through nested objects only
RECURSIVE PreservedOutside(_, _, _)
PreservedOutside(prev, updates, now) ==
  \A key \in KeySet(prev) :
    IF ~IsObj(updates) \/ key \notin KeySet(updates)
    THEN IsObj(now) /\ key \in KeySet(now)
         /\ DeepEqual(Get(now, key), Get(prev, key))
    ELSE (IsObj(Get(prev, key)) /\ IsObj(Get(updates, key)))
           => PreservedOutside(Get(prev, key), Get(updates, key), Get(now, key))

\* C31: a successful update preserves what it was not asked to change: when
\* updateReliverseConfig has returned true and a primary file existed
\* before, every field of the previous on-disk document at a path not
\* present in updates has the same value in the new on-disk document,
\* whether or not the previous document validated.
C31_UpdatePreservesTheRest ==
  (pc = "done" /\ frame.op = "update" /\ out.result = Bool("true")
     /\ pre.cfg.exists /\ IsObj(parseJSONC(pre.cfg.data)))
    => PreservedOutside(parseJSONC(pre.cfg.data), frame.arg,
                        parseJSONC(fs.cfg.data))

\* the document updateReliverseConfig obtains from the files f and updates:
\* the updates merged into the existing config, which is empty when the
\* primary file is missing or does not validate
MergedForUpdate(f, updates) ==
  LET parsed == parseJSONC(f.cfg.data)
  IN deepMerge(IF f.cfg.exists /\ Check(reliverseConfigSchema, parsed)
               THEN parsed ELSE Obj(<< >>),
               updates)

\* C32: when the document obtained by merging the updates into the existing
\* config fails schema validation, updateReliverseConfig returns false,
\* raising nothing, and leaves path, path.backup and path.tmp exactly as
\* they were before the call.
C32_InvalidMergeLeavesFiles ==
  (pc = "done" /\ frame.op = "update" /\ faults = 0
     /\ ~Check(reliverseConfigSchema, MergedForUpdate(pre, frame.arg)))
    => /\ out.result = Bool("false")
       /\ out.thrown = "none"
       /\ fs = pre

\* an update whose merged document did not validate has returned false
\* next to a stale backup or temp file, which it left in place
C32_Witness ==
  /\ pc = "done"
  /\ frame.op = "update"
  /\ faults = 0
  /\ pre.cfg.exists
  /\ pre.backup.exists \/ pre.tmp.exists
  /\ ~Check(reliverseConfigSchema, MergedForUpdate(pre, frame.arg))
  /\ out.result = Bool("false")

\* a read, or a read with its repair fallback, has returned a document and
\* no I/O step of the call failed
ReadReturnedDocument ==
  /\ pc = "done"
  /\ frame.op \in {"read", "reread"}
  /\ faults = 0
  /\ out.thrown = "none"
  /\ out.result \notin {Null, Undef}

\* C33: recovery converges: after a read (or read-then-repair fallback)
\* has returned a non-null document D with no I/O fault, the primary file
\* parses to a document deep-equal to D, and a read that follows at once
\* returns D through the accept layer, with nothing to write, merge,
\* repair or restore.
C33_RecoveryConverges ==
  ReadReturnedDocument
    => /\ fs.cfg.exists
       /\ DeepEqual(parseJSONC(fs.cfg.data), out.result)
       /\ ReadOutcome(fs).layer = "accept"
       /\ DeepEqual(ReadOutcome(fs).result, out.result)

\* a read with its repair fallback has returned the repaired document
C33_Witness ==
  /\ ReadReturnedDocument
  /\ frame.op = "reread"
  /\ out.layer = "repair"
  /\ ReadOutcome(fs).layer = "accept"

\* the repair layer of a read with its fallback: whenever parseAndFixConfig
\* has an object to repair, the repaired document validates, and a call
\* that went through the repair with no I/O step failing has put the
\* repaired document on the primary path and returned it
RepairLayerPersists ==
  /\ (pc = "f_read" /\ fs.cfg.exists /\ IsJsObject(parseJSONC(fs.cfg.data)))
       => Check(reliverseConfigSchema,
                fixLineByLine(parseJSONC(fs.cfg.data), DEFAULT_CONFIG,
                              reliverseConfigSchema).fixedConfig)
  /\ (pc = "done" /\ frame.op = "reread" /\ frame.ret = "fix" /\ faults = 0)
       => /\ out.layer = "repair"
          /\ fs.cfg = File(Serialize(out.result))

\* C34: the default document validating against the schema, the fixedConfig
\* of repair(candidate, default, schema) validates against the schema for
\* every candidate, so that parseAndFixConfig never takes its 'could not
\* fix all invalid config lines' branch and goes on to persist the result.
C34_RepairedValidates ==
  /\ Check(reliverseConfigSchema, DEFAULT_CONFIG)
  /\ (pc = "repaired" /\ frame.op = "repair")
       => Check(reliverseConfigSchema, out.result.fixedConfig)

\* a candidate with a top-level field and a nested field of the wrong type
\* has been repaired into a document that validates
C34_Witness ==
  /\ pc = "repaired"
  /\ frame.op = "repair"
  /\ IsObj(frame.arg)
  /\ Get(frame.arg, "projectLicense") = Num("5")
  /\ Get(frame.arg, "features") =
       Obj(<< KV("i18n", Str("yes")), KV("themeMode", Str("dark")) >>)
  /\ ~Check(reliverseConfigSchema, frame.arg)
  /\ Len(out.result.changedKeys) >= 2
  /\ Check(reliverseConfigSchema, out.result.fixedConfig)

=============================================================================
